---- MODULE Spec2Model ----
(***************************************************************************)
(* A model of bzr-builder: the recipe parser (RecipeParser), the plan      *)
(* model (RecipeBranch / BaseRecipeBranch), revision resolution and change *)
(* detection (resolve_revisions), the tree builder (build_tree) and the    *)
(* build / dailydeb command flow.                                          *)
(*                                                                         *)
(* Text.  A Python str is modelled as a sequence of symbols.  A symbol is  *)
(* an atomic run of characters: the two whitespace characters " " and      *)
(* "\t", the characters "#", ".", the digits, and multi-character runs of  *)
(* other non-whitespace characters ("merge", "foo", "{revno}", ...).  The  *)
(* parser only ever asks of a character whether it is whitespace, a digit, *)
(* "." or "#", so a multi-character symbol behaves as its characters do.   *)
(* Column numbers count characters: SymLen gives a symbol's length.        *)
(* A recipe text is the sequence of its lines (text.split("\n")).          *)
(***************************************************************************)
EXTENDS Integers, Sequences, FiniteSets, TLC

VARIABLES
    pc,           \* the step the program is at
    text,         \* the recipe text given to RecipeParser, as lines
    parser,       \* the RecipeParser and the locals of its parse()
    manifest,     \* what build_manifest returned
    reparsed,     \* the parser state after parsing the manifest again
    vcs,          \* the source branches: url -> mainline history
    base_branch,  \* the plan (BaseRecipeBranch and its heap) being processed
    old_recipe,   \* the plan of --if-changed-from, or NoPlan
    resolution,   \* the state left by resolve_revisions
    cmd,          \* the command run: its options, result and side effects
    targets,      \* the branches and trees under the working directory
    stack,        \* the build_tree calls in progress, innermost last
    raised,       \* the exception that is propagating, "" if none is
    ops           \* the operations build_tree has issued so far, in order

parse_vars == <<text, parser, manifest, reparsed>>
plan_vars == <<vcs, base_branch, old_recipe, resolution>>
build_vars == <<cmd, targets, stack, raised, ops>>
vars == <<pc, parse_vars, plan_vars, build_vars>>

(***************************************************************************)
(* Python's None.  It is different from every str, the empty str included; *)
(* "None" is not a symbol of any text the model builds.                    *)
(***************************************************************************)
None == <<"None">>

whitespace_chars == {" ", "\t"}
eol_char == "\n"
digit_chars == {"0", "1", "2", "3", "4", "5", "6", "7", "8", "9"}

SymLen(sym) == Len(sym)

RECURSIVE StrLen(_)
\* len(s) of a str, in characters
StrLen(s) == IF s = <<>> THEN 0 ELSE SymLen(Head(s)) + StrLen(Tail(s))

RECURSIVE SpacesPerLevel(_)
\* a variant of Spaces that indents by one space a level: half of n spaces
SpacesPerLevel(n) == IF n < 2 THEN <<>> ELSE <<" ">> \o SpacesPerLevel(n - 2)

\* a variant of Spaces that never indents
NoSpaces(n) == <<>>

\* the str "  " * n
RECURSIVE Spaces(_)
Spaces(n) == IF n = 0 THEN <<>> ELSE <<" ">> \o Spaces(n - 1)

(***************************************************************************)
(* RecipeBranch objects live in a heap: nodes[i] is the object with        *)
(* identity i, child_branches holds <<identity, nest_location>> pairs with *)
(* nest_location = None for a merged branch.  The BaseRecipeBranch of a    *)
(* parsed recipe is the first object the parser creates.                   *)
(***************************************************************************)
RecipeBranch(name, url, revspec) ==
    [name |-> name, url |-> url, revspec |-> revspec,
     child_branches |-> <<>>, revid |-> None]

\* RecipeBranch.merge_branch: self.child_branches.append((branch, None))
merge_branch_append(nodes, self, branch) ==
    [nodes EXCEPT ![self].child_branches = Append(@, <<branch, None>>)]

\* the assertion of RecipeBranch.nest_branch
nest_location_free(nodes, self, location) ==
    \A k \in 1..Len(nodes[self].child_branches) :
        nodes[self].child_branches[k][2] # location

\* RecipeBranch.nest_branch (after its assertion)
nest_branch_append(nodes, self, location, branch) ==
    [nodes EXCEPT ![self].child_branches = Append(@, <<branch, location>>)]

(***************************************************************************)
(* RecipeParser: the cursor.  index counts the symbols of current_line     *)
(* already taken; CharIndex converts it to the character index self.index. *)
(***************************************************************************)
NoError == [line |-> 0, char |-> 0, problem |-> <<>>]

CurrentLine(s) == s.lines[s.line_index + 1]

RECURSIVE CharIndexOf(_, _)
CharIndexOf(line, n) ==
    IF n = 0 THEN 0 ELSE SymLen(line[n]) + CharIndexOf(line, n - 1)

CharIndex(s) ==
    IF s.line_index >= Len(s.lines) THEN 0
    ELSE CharIndexOf(CurrentLine(s), s.index)

Failed(s) == s.error # NoError

\* RecipeParser.throw_parse_error: RecipeParseError(filename, line, char, problem)
throw_parse_error(s, problem) ==
    [s EXCEPT !.error = [line |-> s.line_index + 1,
                         char |-> CharIndex(s) + 1,
                         problem |-> problem]]

\* an exception that is not a RecipeParseError (AssertionError, IndexError)
throw_other(s, kind) ==
    [s EXCEPT !.error = [line |-> 0, char |-> 0, problem |-> <<kind>>],
              !.other_error = TRUE]

throw_expecting_error(s, expected, actual) ==
    throw_parse_error(s, <<"Expecting '", expected, "', got '">> \o actual
                         \o <<"'">>)

throw_eol(s, expected) ==
    throw_parse_error(s, <<"End of line while looking for '", expected, "'">>)

\* RecipeParser.peek_char: the next symbol, or None at the end of the line
peek_char(s, skip) ==
    IF s.index + skip >= Len(CurrentLine(s)) THEN "None"
    ELSE CurrentLine(s)[s.index + skip + 1]

AtEol(s, skip) == s.index + skip >= Len(CurrentLine(s))

\* RecipeParser.take_chars for a run of num symbols
take_chars(s, num) == [s EXCEPT !.index = @ + num]

RECURSIVE WhitespaceRun(_, _)
\* the length in symbols of the whitespace run of line that starts after i
WhitespaceRun(line, i) ==
    IF i >= Len(line) \/ line[i + 1] \notin whitespace_chars THEN 0
    ELSE 1 + WhitespaceRun(line, i + 1)

RECURSIVE WordRun(_, _)
\* the length in symbols of the non-whitespace run of line that starts after i
WordRun(line, i) ==
    IF i >= Len(line) \/ line[i + 1] \in whitespace_chars THEN 0
    ELSE 1 + WordRun(line, i + 1)

\* RecipeParser.parse_whitespace; the whitespace taken is left in s.ret
parse_whitespace(s, looking_for, require) ==
    IF Failed(s) THEN s
    ELSE IF require /\ AtEol(s, 0)
    THEN throw_parse_error(s, <<"End of line while looking for ">>
                              \o looking_for)
    ELSE IF require /\ peek_char(s, 0) \notin whitespace_chars
    THEN throw_parse_error(s, <<"Expecting whitespace before ">> \o looking_for
                              \o <<", got '", peek_char(s, 0), "'.">>)
    ELSE LET n == WhitespaceRun(CurrentLine(s), s.index)
         IN  [s EXCEPT !.index = @ + n,
                       !.ret = SubSeq(CurrentLine(s), s.index + 1, s.index + n)]

\* RecipeParser.peek_to_whitespace: None at the end of the line, else the
\* run of non-whitespace characters at the cursor (possibly empty)
peek_to_whitespace(s) ==
    IF AtEol(s, 0) THEN None
    ELSE LET n == WordRun(CurrentLine(s), s.index)
         IN  SubSeq(CurrentLine(s), s.index + 1, s.index + n)

\* RecipeParser.take_to_whitespace; the text taken is left in s.ret
take_to_whitespace(s, looking_for) ==
    IF Failed(s) THEN s
    ELSE LET word == peek_to_whitespace(s)
         IN  IF word = None
             THEN throw_parse_error(s, <<"End of line while looking for ">>
                                       \o looking_for)
             ELSE [take_chars(s, Len(word)) EXCEPT !.ret = word]

\* the locals of parse() and parse_header() are kept in the parser state:
\* keep(s, local) is local = <value just returned>
keep(s, local) == IF Failed(s) THEN s ELSE [s EXCEPT ![local] = s.ret]

\* RecipeParser.parse_word, after its parse_whitespace
parse_word_at(s, expected) ==
    IF Failed(s) THEN s
    ELSE IF peek_to_whitespace(s) = <<expected>>
    THEN [take_chars(s, 1) EXCEPT !.ret = <<expected>>]
    ELSE IF peek_to_whitespace(s) = None THEN throw_eol(s, expected)
    ELSE throw_expecting_error(s, expected, peek_to_whitespace(s))

\* RecipeParser.parse_word
parse_word(s, expected, require_whitespace) ==
    parse_word_at(parse_whitespace(s, <<"'", expected, "'">>,
                                   require_whitespace), expected)

\* RecipeParser.parse_char
parse_char(s, char) ==
    IF Failed(s) THEN s
    ELSE IF AtEol(s, 0) THEN throw_eol(s, char)
    ELSE IF peek_char(s, 0) = char THEN take_chars(s, 1)
    ELSE throw_expecting_error(s, char, <<peek_char(s, 0)>>)

RECURSIVE DigitRun(_, _)
DigitRun(line, i) ==
    IF i >= Len(line) \/ line[i + 1] \notin digit_chars THEN 0
    ELSE 1 + DigitRun(line, i + 1)

\* RecipeParser._parse_integer: the digits found skip symbols after the cursor
parse_integer_(s, skip) ==
    SubSeq(CurrentLine(s), s.index + skip + 1,
           s.index + skip + DigitRun(CurrentLine(s), s.index + skip))

\* RecipeParser.parse_float, after its parse_whitespace, with ret the digits
\* of the integer part
parse_float_from(s, ret) ==
    IF ret = <<>>
    THEN throw_parse_error(s, <<"Expecting a float, got '">>
                              \o peek_to_whitespace(s) \o <<"'">>)
    ELSE IF peek_char(s, Len(ret)) = "."
    THEN IF parse_integer_(s, Len(ret) + 1) = <<>>
         THEN throw_parse_error(s, <<"Expecting a float, got '">>
                                   \o peek_to_whitespace(s) \o <<"'">>)
         ELSE [take_chars(s, Len(ret) + 1
                             + Len(parse_integer_(s, Len(ret) + 1)))
                 EXCEPT !.ret = ret \o <<".">>
                                \o parse_integer_(s, Len(ret) + 1)]
    ELSE [take_chars(s, Len(ret)) EXCEPT !.ret = ret]

parse_float_at(s) ==
    IF Failed(s) THEN s ELSE parse_float_from(s, parse_integer_(s, 0))

\* RecipeParser.parse_float; the text of the number is left in s.ret
parse_float(s, looking_for) ==
    parse_float_at(parse_whitespace(s, looking_for, TRUE))

\* RecipeParser.new_line, after its parse_whitespace
new_line_at(s) ==
    IF Failed(s) THEN s
    ELSE IF peek_to_whitespace(s) # None
    THEN throw_parse_error(s, <<"Expecting the end of the line, got '">>
                              \o peek_to_whitespace(s) \o <<"'">>)
    ELSE [s EXCEPT !.index = 0, !.line_index = @ + 1]

\* RecipeParser.new_line
new_line(s) == new_line_at(parse_whitespace(s, None, FALSE))

\* a variant of parse_indent_at that lets a line be indented by any depth
parse_indent_any_depth(s, new_indent) ==
    IF Failed(s) THEN s
    ELSE IF \E k \in 1..Len(new_indent) : new_indent[k] = "\t"
    THEN throw_parse_error(s, <<"Indents may not be done by tabs">>)
    ELSE IF Len(new_indent) % 2 # 0
    THEN throw_parse_error(s, <<"Indent not a multiple of two spaces">>)
    ELSE IF Len(new_indent) \div 2 # s.current_indent_level
    THEN [s EXCEPT !.current_indent_level = Len(new_indent) \div 2,
                   !.old_indent_level = s.current_indent_level]
    ELSE [s EXCEPT !.old_indent_level = -1]

\* RecipeParser.parse_indent, after its parse_whitespace returned new_indent
parse_indent_at(s, new_indent) ==
    IF Failed(s) THEN s
    ELSE IF \E k \in 1..Len(new_indent) : new_indent[k] = "\t"
    THEN throw_parse_error(s, <<"Indents may not be done by tabs">>)
    ELSE IF Len(new_indent) % 2 # 0
    THEN throw_parse_error(s, <<"Indent not a multiple of two spaces">>)
    ELSE IF Len(new_indent) \div 2 # s.current_indent_level
    THEN IF Len(new_indent) \div 2 > s.current_indent_level
            /\ Len(new_indent) \div 2 - s.current_indent_level # 1
         THEN throw_parse_error(
                  [s EXCEPT !.current_indent_level = Len(new_indent) \div 2],
                  <<"Indented by more than two spaces at once">>)
         ELSE [s EXCEPT !.current_indent_level = Len(new_indent) \div 2,
                        !.old_indent_level = s.current_indent_level]
    ELSE [s EXCEPT !.old_indent_level = -1]

\* RecipeParser.parse_indent; s.old_indent_level is the level returned,
\* -1 for None
parse_indent(s) ==
    IF Failed(s) THEN s
    ELSE parse_indent_at(parse_whitespace(s, None, FALSE),
                         parse_whitespace(s, None, FALSE).ret)

\* return value (the value of a call that did not raise)
returning(s, value) == IF Failed(s) THEN s ELSE [s EXCEPT !.ret = value]

\* RecipeParser.parse_comment_line; s.ret is the comment, or None
parse_comment_line(s) ==
    IF Failed(s) THEN s
    ELSE IF AtEol(s, 0) THEN [s EXCEPT !.ret = <<>>]
    ELSE IF peek_char(s, 0) # "#" THEN [s EXCEPT !.ret = None]
    ELSE returning(new_line(s),
                   SubSeq(CurrentLine(s), s.index + 1, Len(CurrentLine(s))))

\* RecipeParser.parse_instruction
parse_instruction(s) ==
    IF Failed(s) THEN s
    ELSE IF peek_to_whitespace(s) = None
    THEN throw_parse_error(s,
             <<"End of line while looking for 'nest' or 'merge'">>)
    ELSE IF peek_to_whitespace(s) = <<"nest">>
            \/ peek_to_whitespace(s) = <<"merge">>
    THEN [take_chars(s, 1) EXCEPT !.ret = peek_to_whitespace(s)]
    ELSE throw_parse_error(s, <<"Expecting 'nest' or 'merge', got '">>
                              \o peek_to_whitespace(s) \o <<"'">>)

parse_branch_id(s) ==
    take_to_whitespace(parse_whitespace(s, <<"the branch id">>, TRUE),
                       <<"the branch id">>)

parse_branch_url(s) ==
    take_to_whitespace(parse_whitespace(s, <<"the branch url">>, TRUE),
                       <<"the branch url">>)

parse_branch_location(s) ==
    take_to_whitespace(parse_whitespace(s, <<"the location to nest">>, TRUE),
                       <<"the location to nest">>)

\* RecipeParser.parse_optional_revspec, after its parse_whitespace
parse_optional_revspec_at(s) ==
    IF Failed(s) THEN s
    ELSE IF peek_to_whitespace(s) # None
    THEN [take_chars(s, Len(peek_to_whitespace(s)))
            EXCEPT !.ret = peek_to_whitespace(s)]
    ELSE [s EXCEPT !.ret = None]

\* RecipeParser.parse_optional_revspec; s.ret is the revspec, or None
parse_optional_revspec(s) ==
    parse_optional_revspec_at(parse_whitespace(s, None, FALSE))

\* RecipeParser.parse_header; leaves version and deb_version in s
parse_header(s) ==
    new_line(
      keep(take_to_whitespace(
             parse_whitespace(
               parse_word(
                 keep(parse_float(
                        parse_word(
                          parse_word(parse_char(s, "#"), "bzr-builder", FALSE),
                          "format", TRUE),
                        <<"format version">>),
                      "version"),
                 "deb-version", TRUE),
               <<"a value for 'deb-version'">>, TRUE),
             <<"a value for 'deb-version'">>),
           "deb_version"))

\* the state of RecipeParser.parse before parse_header
RecipeParser(recipe) ==
    [lines |-> recipe, index |-> 0, line_index |-> 0,
     current_indent_level |-> 0, ret |-> None, old_indent_level |-> -1,
     error |-> NoError, other_error |-> FALSE,
     version |-> None, deb_version |-> None,
     last_instruction |-> None, active_branches |-> <<>>,
     last_branch |-> 0, nodes |-> <<>>,
     instruction |-> None, branch_id |-> None, url |-> None,
     location |-> None, revspec |-> None]

(***************************************************************************)
(* RecipeParser.parse: the indent bookkeeping of one pass of the loop.     *)
(***************************************************************************)
\* active_branches[:unindent] for unindent = -n < 0
DropLast(seq, n) == IF n >= Len(seq) THEN <<>> ELSE SubSeq(seq, 1, Len(seq) - n)

\* recipe.py 515-524, after parse_indent
parse_scope_at(s) ==
    IF Failed(s) \/ s.old_indent_level = -1 THEN s
    ELSE IF s.old_indent_level < s.current_indent_level
            /\ s.last_instruction # <<"nest">>
    THEN throw_parse_error(s,
             <<"Not allowed to indent unless after a 'nest' line">>)
    ELSE IF s.old_indent_level < s.current_indent_level
    THEN [s EXCEPT !.active_branches = Append(@, s.last_branch)]
    ELSE [s EXCEPT !.active_branches =
             DropLast(@, s.old_indent_level - s.current_indent_level)]

parse_scope(s) == parse_scope_at(parse_indent(s))

\* recipe.py 533-536: the BaseRecipeBranch is created
new_base_branch(s) ==
    IF Failed(s) THEN s
    ELSE [s EXCEPT !.nodes = Append(@, RecipeBranch(None, s.url, s.revspec)),
                   !.last_branch = Len(s.nodes) + 1,
                   !.active_branches = <<Len(s.nodes) + 1>>,
                   !.last_instruction = <<>>]

\* the branch of the loop that reads the base branch line
parse_base_branch(s) ==
    new_base_branch(
      new_line(
        keep(parse_optional_revspec(
               keep(take_to_whitespace(s, <<"branch to start from">>), "url")),
             "revspec")))

\* recipe.py 541-542
parse_nest_location(s) ==
    IF Failed(s) \/ s.instruction # <<"nest">> THEN s
    ELSE keep(parse_branch_location(s), "location")

\* recipe.py 545-550: the RecipeBranch is created and attached
new_child_branch(s) ==
    IF Failed(s) THEN s
    ELSE IF s.active_branches = <<>> THEN throw_other(s, "IndexError")
    ELSE IF s.instruction = <<"nest">>
            /\ ~nest_location_free(s.nodes, s.active_branches[Len(s.active_branches)],
                                   s.location)
    THEN throw_other(s, "AssertionError")
    ELSE [s EXCEPT
            !.nodes =
                IF s.instruction = <<"nest">>
                THEN nest_branch_append(
                         Append(s.nodes, RecipeBranch(s.branch_id, s.url, s.revspec)),
                         s.active_branches[Len(s.active_branches)],
                         s.location, Len(s.nodes) + 1)
                ELSE merge_branch_append(
                         Append(s.nodes, RecipeBranch(s.branch_id, s.url, s.revspec)),
                         s.active_branches[Len(s.active_branches)],
                         Len(s.nodes) + 1),
            !.last_branch = Len(s.nodes) + 1,
            !.last_instruction = s.instruction]

\* the branch of the loop that reads a merge or nest line
parse_child_branch(s) ==
    new_child_branch(
      new_line(
        keep(parse_optional_revspec(
               parse_nest_location(
                 keep(parse_branch_url(
                        keep(parse_branch_id(
                               keep(parse_instruction(s), "instruction")),
                             "branch_id")),
                      "url"))),
             "revspec")))

\* recipe.py 525-550, after parse_comment_line
parse_line_at(s) ==
    IF Failed(s) THEN s
    ELSE IF s.ret # None THEN new_line(s)
    ELSE IF s.last_instruction = None THEN parse_base_branch(s)
    ELSE parse_child_branch(s)

\* one pass of the while loop of RecipeParser.parse
parse_line(s) == parse_line_at(parse_comment_line(parse_scope(s)))

\* the end of RecipeParser.parse
parse_return(s) ==
    IF s.active_branches = <<>> THEN throw_parse_error(s, <<"Empty recipe">>)
    ELSE s

RECURSIVE parse_loop(_)
parse_loop(s) ==
    IF Failed(s) THEN s
    ELSE IF s.line_index < Len(s.lines) THEN parse_loop(parse_line(s))
    ELSE parse_return(s)

\* RecipeParser(recipe).parse(): the final parser state.  The plan is
\* [nodes, deb_version] with the base branch at active_branches[1].
parse(recipe) == parse_loop(parse_header(RecipeParser(recipe)))

(***************************************************************************)
(* str operations used on deb_version.                                     *)
(***************************************************************************)
\* sub in s
StrContains(s, sub) ==
    \E i \in 0..(Len(s) - Len(sub)) : SubSeq(s, i + 1, i + Len(sub)) = sub

RECURSIVE StrReplace(_, _, _)
\* s.replace(sub, by), for a non-empty sub
StrReplace(s, sub, by) ==
    IF Len(s) < Len(sub) THEN s
    ELSE IF SubSeq(s, 1, Len(sub)) = sub
    THEN by \o StrReplace(SubSeq(s, Len(sub) + 1, Len(s)), sub, by)
    ELSE <<Head(s)>> \o StrReplace(Tail(s), sub, by)

\* the symbols that hold the character "{"
BraceSymbols == {"{", "{revno}", "{revno:", "{time}", "{date}", "{debupstream}"}

\* "{" in s
HasBrace(s) == \E k \in 1..Len(s) : s[k] \in BraceSymbols

(***************************************************************************)
(* The version control provider (bzrlib), as far as the code uses it.  A   *)
(* source branch is its mainline history, a sequence of revision ids; vcs  *)
(* maps the url of every source branch to its history.                     *)
(***************************************************************************)
\* "%s" % revno
RevnoStr(n) == <<"0", "1", "2", "3", "4", "5", "6", "7", "8", "9">>[n + 1]

\* Branch.last_revision()
last_revision(history) ==
    IF history = <<>> THEN <<"null:">> ELSE <<history[Len(history)]>>

\* RevisionSpec.from_string(revspec).as_revision_id(branch): <<ok, revision id>>.
\* "revid:X" names X whether or not the branch holds it; a number names the
\* mainline revision with that revno; anything else is an InvalidRevisionSpec.
as_revision_id(revspec, history) ==
    IF Len(revspec) = 2 /\ revspec[1] = "revid:" THEN <<TRUE, <<revspec[2]>>>>
    ELSE IF Len(revspec) = 1
            /\ \E n \in 1..Len(history) : revspec[1] = RevnoStr(n)
    THEN <<TRUE, <<history[CHOOSE n \in 1..Len(history) :
                                revspec[1] = RevnoStr(n)]>>>>
    ELSE <<FALSE, None>>

\* the revspec-or-tip choice made at recipe.py 201-206, 179-184 and 145-150
revision_of(revspec, history) ==
    IF revspec # None THEN as_revision_id(revspec, history)
    ELSE <<TRUE, last_revision(history)>>

\* get_revno() of _resolve_revisions_recurse: the revno as a str, or None
\* when the branch does not hold the revision
get_revno(history, revision_id) ==
    IF \E n \in 1..Len(history) : <<history[n]>> = revision_id
    THEN <<RevnoStr(CHOOSE n \in 1..Len(history) : <<history[n]>> = revision_id)>>
    ELSE None

(***************************************************************************)
(* BaseRecipeBranch.substitute_revno and resolve_revisions.  A resolution  *)
(* state r holds the plan being resolved (nodes, deb_version), the error   *)
(* raised ("" while none is), the branches resolved so far in order, and   *)
(* the value the last call returned (changed).                             *)
(***************************************************************************)
substitute_revno(r, branch_name, history, revision_id) ==
    LET subst_string == IF branch_name = None THEN <<"{revno}">>
                        ELSE <<"{revno:">> \o branch_name \o <<"}">>
        revno == get_revno(history, revision_id)
    IN  IF StrContains(r.deb_version, subst_string)
        THEN IF revno = None
             THEN [r EXCEPT !.error = "BzrCommandError: Can't substitute revno"]
             ELSE [r EXCEPT !.deb_version = StrReplace(@, subst_string, revno)]
        ELSE r

\* a variant of revision_changed that compares the revision specs as texts
revision_spec_changed(new_revspec, old_revspec, history, revision_id) ==
    <<TRUE, new_revspec # old_revspec>>

\* a variant of revision_changed for which a difference of the revision
\* specs is a change
revision_changed_when_pinned(new_revspec, old_revspec, history, revision_id) ==
    IF new_revspec # None \/ old_revspec # None
    THEN IF ~revision_of(old_revspec, history)[1] THEN <<FALSE, FALSE>>
         ELSE <<TRUE, \/ revision_id # revision_of(old_revspec, history)[2]
                      \/ new_revspec # old_revspec>>
    ELSE <<TRUE, FALSE>>

\* the comparison at recipe.py 220-231: <<ok, changed>>
revision_changed(new_revspec, old_revspec, history, revision_id) ==
    IF new_revspec # None \/ old_revspec # None
    THEN LET changed_revision == revision_of(old_revspec, history)
         IN  IF ~changed_revision[1] THEN <<FALSE, FALSE>>
             ELSE <<TRUE, revision_id # changed_revision[2]>>
    ELSE <<TRUE, FALSE>>

RECURSIVE resolve_revisions_recurse(_, _, _, _, _)
RECURSIVE resolve_children(_, _, _, _, _, _, _)

\* a variant of resolve_children in which the last child decides
RECURSIVE resolve_children_last(_, _, _, _, _, _, _)
resolve_children_last(r, srcs, new_branch, index, old_nodes, if_changed_from, changed) ==
    IF r.error # "" THEN r
    ELSE IF index > Len(r.nodes[new_branch].child_branches)
    THEN [r EXCEPT !.changed = changed]
    ELSE resolve_children_last(
             resolve_revisions_recurse(
                 r, srcs, r.nodes[new_branch].child_branches[index][1], old_nodes,
                 IF if_changed_from # 0
                 THEN old_nodes[if_changed_from].child_branches[index][1]
                 ELSE 0),
             srcs, new_branch, index + 1, old_nodes, if_changed_from,
             resolve_revisions_recurse(
                 r, srcs, r.nodes[new_branch].child_branches[index][1], old_nodes,
                 IF if_changed_from # 0
                 THEN old_nodes[if_changed_from].child_branches[index][1]
                 ELSE 0).changed)

\* a variant of resolve_children that stops at the first child found changed
RECURSIVE resolve_children_until_changed(_, _, _, _, _, _, _)
resolve_children_until_changed(r, srcs, new_branch, index, old_nodes, if_changed_from, changed) ==
    IF r.error # "" THEN r
    ELSE IF index > Len(r.nodes[new_branch].child_branches) \/ changed
    THEN [r EXCEPT !.changed = changed]
    ELSE resolve_children_until_changed(
             resolve_revisions_recurse(
                 r, srcs, r.nodes[new_branch].child_branches[index][1], old_nodes,
                 IF if_changed_from # 0
                 THEN old_nodes[if_changed_from].child_branches[index][1]
                 ELSE 0),
             srcs, new_branch, index + 1, old_nodes, if_changed_from,
             resolve_revisions_recurse(
                 r, srcs, r.nodes[new_branch].child_branches[index][1], old_nodes,
                 IF if_changed_from # 0
                 THEN old_nodes[if_changed_from].child_branches[index][1]
                 ELSE 0).changed)

\* the loop over new_branch.child_branches, from position index on
resolve_children(r, srcs, new_branch, index, old_nodes, if_changed_from, changed) ==
    IF r.error # "" THEN r
    ELSE IF index > Len(r.nodes[new_branch].child_branches)
    THEN [r EXCEPT !.changed = changed]
    ELSE LET child_branch == r.nodes[new_branch].child_branches[index][1]
             if_changed_child ==
                 IF if_changed_from # 0
                 THEN old_nodes[if_changed_from].child_branches[index][1]
                 ELSE 0
             r1 == resolve_revisions_recurse(r, srcs, child_branch, old_nodes,
                                             if_changed_child)
         IN  resolve_children(r1, srcs, new_branch, index + 1, old_nodes,
                              if_changed_from,
                              IF r1.changed THEN r1.changed ELSE changed)

\* _resolve_revisions_recurse; if_changed_from = 0 stands for None
resolve_revisions_recurse(r, srcs, new_branch, old_nodes, if_changed_from) ==
    LET b == r.nodes[new_branch]
        history == srcs[b.url]
        revision == revision_of(b.revspec, history)
        revision_id == revision[2]
        r1 == [r EXCEPT !.nodes[new_branch].revid = revision_id,
                        !.order = Append(@, new_branch)]
        r2 == substitute_revno(r1, b.name, history, revision_id)
        cmp == IF if_changed_from # 0
               THEN revision_changed(b.revspec,
                        old_nodes[if_changed_from].revspec, history, revision_id)
               ELSE <<TRUE, FALSE>>
    IN  IF r.error # "" THEN r
        ELSE IF b.url \notin DOMAIN srcs
        THEN [r EXCEPT !.error = "NotBranchError"]
        ELSE IF ~revision[1] THEN [r EXCEPT !.error = "InvalidRevisionSpec"]
        ELSE IF r2.error # "" THEN r2
        ELSE IF ~cmp[1] THEN [r2 EXCEPT !.error = "InvalidRevisionSpec"]
        ELSE resolve_children(r2, srcs, new_branch, 1, old_nodes,
                              if_changed_from, cmp[2])

\* a variant of different_shape_to that does not look at the names
RECURSIVE different_shape_but_names(_, _, _, _)
different_shape_but_names(nodes, self, other_nodes, other_branch) ==
    \/ nodes[self].url # other_nodes[other_branch].url
    \/ Len(nodes[self].child_branches)
           # Len(other_nodes[other_branch].child_branches)
    \/ \E index \in 1..Len(nodes[self].child_branches) :
          \/ nodes[self].child_branches[index][2]
                 # other_nodes[other_branch].child_branches[index][2]
          \/ different_shape_but_names(
                 nodes, nodes[self].child_branches[index][1], other_nodes,
                 other_nodes[other_branch].child_branches[index][1])

RECURSIVE different_shape_to(_, _, _, _)
\* RecipeBranch.different_shape_to
different_shape_to(nodes, self, other_nodes, other_branch) ==
    LET a == nodes[self]
        b == other_nodes[other_branch]
    IN  \/ a.name # b.name
        \/ a.url # b.url
        \/ Len(a.child_branches) # Len(b.child_branches)
        \/ \E index \in 1..Len(a.child_branches) :
              \/ a.child_branches[index][2] # b.child_branches[index][2]
              \/ different_shape_to(nodes, a.child_branches[index][1],
                                    other_nodes, b.child_branches[index][1])

\* the state resolve_revisions starts from
Resolution(plan) ==
    [nodes |-> plan.nodes, deb_version |-> plan.deb_version, error |-> "",
     message |-> <<>>, order |-> <<>>, changed |-> FALSE]

\* resolve_revisions(base_branch, if_changed_from); old = NoPlan stands for
\* if_changed_from = None.  The value returned is left in changed.
NoPlan == [nodes |-> <<>>, deb_version |-> None]

\* a variant of resolve_revisions that does not look for "{" in deb_version
resolve_revisions_unchecked(plan, srcs, old) ==
    IF resolve_revisions_recurse(Resolution(plan), srcs, 1, old.nodes, 0).error # ""
    THEN resolve_revisions_recurse(Resolution(plan), srcs, 1, old.nodes, 0)
    ELSE [resolve_revisions_recurse(Resolution(plan), srcs, 1, old.nodes, 0)
            EXCEPT !.changed = TRUE]

\* a variant of resolve_revisions that lets {debupstream} through
resolve_revisions_keeping_debupstream(plan, srcs, old) ==
    IF resolve_revisions_unchecked(plan, srcs, old).error = ""
       /\ HasBrace(StrReplace(resolve_revisions_unchecked(plan, srcs, old).deb_version, <<"{debupstream}">>, <<>>))
    THEN [resolve_revisions_unchecked(plan, srcs, old) EXCEPT
            !.error = "BzrCommandError: deb-version not fully expanded"]
    ELSE resolve_revisions_unchecked(plan, srcs, old)

resolve_revisions(plan, srcs, old) ==
    LET changed == IF old # NoPlan
                   THEN different_shape_to(plan.nodes, 1, old.nodes, 1)
                   ELSE FALSE
        if_changed_from_revisions == IF old = NoPlan \/ changed THEN 0 ELSE 1
        r1 == resolve_revisions_recurse(Resolution(plan), srcs, 1, old.nodes,
                                        if_changed_from_revisions)
        changed1 == IF ~changed THEN r1.changed ELSE changed
    IN  IF r1.error # "" THEN r1
        ELSE IF HasBrace(r1.deb_version)
        THEN [r1 EXCEPT
                !.error = "BzrCommandError: deb-version not fully expanded",
                !.message = <<"deb-version not fully expanded: ">>
                            \o r1.deb_version]
        ELSE IF old # NoPlan /\ ~changed1 THEN [r1 EXCEPT !.changed = FALSE]
        ELSE [r1 EXCEPT !.changed = TRUE]

\* the plan resolve_revisions leaves behind
ResolvedPlan(r) == [nodes |-> r.nodes, deb_version |-> r.deb_version]


(***************************************************************************)
(* build_manifest.  The manifest is returned as its lines; the text ends   *)
(* with "\n", so the last line is empty.  AssertionError is reported in    *)
(* error.                                                                  *)
(***************************************************************************)
RECURSIVE add_child_branches_to_manifest(_, _, _, _)
\* _add_child_branches_to_manifest, from position index of child_branches on:
\* <<ok, lines>>
add_child_branches_to_manifest(nodes, self, index, indent_level) ==
    IF index > Len(nodes[self].child_branches) THEN <<TRUE, <<>>>>
    ELSE LET child_branch == nodes[self].child_branches[index][1]
             nest_location == nodes[self].child_branches[index][2]
             c == nodes[child_branch]
             rest == add_child_branches_to_manifest(nodes, self, index + 1,
                                                    indent_level)
             below == add_child_branches_to_manifest(nodes, child_branch, 1,
                                                     indent_level + 1)
         IN  IF c.revid = None THEN <<FALSE, <<>>>>
             ELSE IF nest_location # None
             THEN <<below[1] /\ rest[1],
                    <<Spaces(2 * indent_level) \o <<"nest", " ">> \o c.name
                      \o <<" ">> \o c.url \o <<" ">> \o nest_location
                      \o <<" ", "revid:">> \o c.revid>>
                    \o below[2] \o rest[2]>>
             ELSE <<rest[1],
                    <<Spaces(2 * indent_level) \o <<"merge", " ">> \o c.name
                      \o <<" ">> \o c.url \o <<" ", "revid:">> \o c.revid>>
                    \o rest[2]>>

\* the text build_manifest puts together, before its sanity check
manifest_text(plan) ==
    LET children == add_child_branches_to_manifest(plan.nodes, 1, 1, 0)
    IN  <<children[1] /\ plan.nodes[1].revid # None,
          << <<"#", " ", "bzr-builder", " ", "format", " ", "0", ".", "1", " ",
               "deb-version", " ">> \o plan.deb_version,
             plan.nodes[1].url \o <<" ", "revid:">> \o plan.nodes[1].revid >>
          \o children[2] \o << <<>> >> >>

\* build_manifest: [error, manifest]; error is "" when the manifest is returned
build_manifest(plan) ==
    LET m == manifest_text(plan)
    IN  IF ~m[1] THEN [error |-> "AssertionError: Branch hasn't been built",
                       manifest |-> <<>>]
        ELSE IF Failed(parse(m[2]))
        THEN [error |-> "RecipeParseError", manifest |-> <<>>]
        ELSE [error |-> "", manifest |-> m[2]]


(***************************************************************************)
(* Shape of a plan, stated independently of different_shape_to: the        *)
(* pre-order list of <<depth, name, url, nest location>> of its branches.  *)
(***************************************************************************)
RECURSIVE ShapeFrom(_, _, _, _)
ShapeFrom(nodes, self, location, depth) ==
    LET RECURSIVE Children(_)
        Children(index) ==
            IF index > Len(nodes[self].child_branches) THEN <<>>
            ELSE ShapeFrom(nodes, nodes[self].child_branches[index][1],
                           nodes[self].child_branches[index][2], depth + 1)
                 \o Children(index + 1)
    IN  <<<<depth, nodes[self].name, nodes[self].url, location>>>> \o Children(1)

Shape(plan) == ShapeFrom(plan.nodes, 1, None, 0)

\* the plan a successful parse returns
PlanOf(s) == [nodes |-> s.nodes, deb_version |-> s.deb_version]

(***************************************************************************)
(* The target of a build.  A target is what bzrlib finds at a path under   *)
(* the working directory: possibly a branch (its mainline history, tip     *)
(* last, and the revisions in the ancestry of the tip), possibly with a    *)
(* working tree (its pending merges and whether it has conflicts).  A path *)
(* is the sequence of nest locations that lead to it, <<>> being the       *)
(* directory given to build_tree.  What is at a path before the build is   *)
(* found out when build_tree opens it (known).                             *)
(***************************************************************************)
MaxDepth == 2        \* nest locations in a path
MaxConflicts == 1    \* conflicts a pull or a merge reports

Locations == {"d1", "d2"}

RECURSIVE PathsOf(_)
PathsOf(n) ==
    IF n = 0 THEN {<<>>}
    ELSE PathsOf(n - 1) \cup {Append(path, l) : path \in PathsOf(n - 1), l \in Locations}

Paths == PathsOf(MaxDepth)

NoTarget ==
    [known |-> FALSE, branch |-> FALSE, tree |-> FALSE, history |-> <<>>,
     ancestry |-> {}, pending |-> <<>>, conflicts |-> FALSE]

\* what BzrDir.open_tree_or_branch(target_path) can find at a path no build
\* step has touched: nothing ("none": NotBranchError), a branch with its
\* tree ("tree") or a branch without a tree ("branch"), left by an earlier
\* build that fetched the revision of revno tip of the source branch of
\* history
TargetKinds == {"none", "tree", "branch"}

existing_target(kind, history, tip) ==
    IF kind = "none" THEN [NoTarget EXCEPT !.known = TRUE]
    ELSE [NoTarget EXCEPT !.known = TRUE, !.branch = TRUE,
                          !.tree = (kind = "tree"),
                          !.history = SubSeq(history, 1, tip),
                          !.ancestry = {history[k] : k \in 1..tip}]

\* the locks build_tree and pull_or_branch hold on the objects of one
\* target: the tree and branch build_tree opened, and the tree and branch
\* pull_or_branch created.  not_held records an unlock of an object that
\* was not locked.
NoLocks ==
    [tree_opened |-> 0, br_opened |-> 0, tree_created |-> 0, br_created |-> 0,
     not_held |-> FALSE]

lock_write(locks, object) == [locks EXCEPT ![object] = @ + 1]

unlock(locks, object) ==
    IF locks[object] = 0 THEN [locks EXCEPT !.not_held = TRUE]
    ELSE [locks EXCEPT ![object] = @ - 1]

\* the locals of one build_tree call: the branch of the plan it builds, its
\* target_path, tree_to and br_to ("None", or which object they refer to),
\* where it is (phase) and the position in child_branches it has reached
Frame(branch, path) ==
    [branch |-> branch, path |-> path, phase |-> "open", index |-> 1,
     tree_to |-> "None", br_to |-> "None", locks |-> NoLocks]

\* the position of a revision in the mainline of a source branch, 0 if the
\* branch does not hold it
RevisionIndex(history, revision_id) ==
    IF \E n \in 1..Len(history) : <<history[n]>> = revision_id
    THEN CHOOSE n \in 1..Len(history) : <<history[n]>> = revision_id
    ELSE 0

IsPrefix(s, t) == Len(s) <= Len(t) /\ SubSeq(t, 1, Len(s)) = s

\* build_tree, recipe.py 291-303: the target is opened and locked
open_target(frame, target) ==
    [frame EXCEPT
       !.phase = "update",
       !.tree_to = IF target.tree THEN "opened" ELSE "None",
       !.br_to = IF target.branch THEN "opened" ELSE "None",
       !.locks = [NoLocks EXCEPT
                    !.tree_opened = IF target.tree THEN 1 ELSE 0,
                    !.br_opened = IF target.branch THEN 1 ELSE 0]]

\* a variant of has_conflicts that sees none
no_conflict_seen(conflict_count) == FALSE

\* len(conflicts) > 0
has_conflicts(conflicts) == conflicts > 0

\* a variant of conflicts_from_merge that sees none
no_conflict_counted(conflict_count) == FALSE

\* if conflict_count:
conflicts_from_merge(conflict_count) == conflict_count # 0

\* the branch and tree a sprout, a pull or a create_workingtree leave at
\* the target: the mainline of the source up to the revision
pulled(target, history, revision_id, conflicts) ==
    [target EXCEPT
       !.branch = TRUE, !.tree = TRUE,
       !.history = IF revision_id[1] \in target.ancestry THEN @
                   ELSE SubSeq(history, 1, RevisionIndex(history, revision_id)),
       !.ancestry = @ \cup {history[k] :
                               k \in 1..RevisionIndex(history, revision_id)},
       !.conflicts = conflicts > 0]

\* pull_or_branch, "We do a branch": the locks after it returned or raised
branch_locks(locks, conflicts) ==
    IF has_conflicts(conflicts)
    THEN unlock(unlock(lock_write(lock_write(locks, "tree_created"),
                                  "br_created"),
                       "br_created"),
                "tree_created")
    ELSE lock_write(lock_write(locks, "tree_created"), "br_created")

\* pull_or_branch, "We do a pull" with no tree: the locks after it
pull_no_tree_locks(locks, conflicts) ==
    IF has_conflicts(conflicts)
    THEN unlock(lock_write(lock_write(unlock(locks, "br_opened"),
                                      "br_created"),
                           "tree_created"),
                "tree_created")
    ELSE lock_write(lock_write(unlock(locks, "br_opened"), "br_created"),
                    "tree_created")

\* pull_or_branch(tree_to, br_to, br_from, to_transport, revision_id) for the
\* locals of frame: the target, the frame and the error raised ("" if it
\* returned).  conflicts is len(tree_to.conflicts()) after the step.
pull_or_branch(frame, target, history, revision_id, conflicts) ==
    IF RevisionIndex(history, revision_id) = 0
    THEN [frame |-> frame, target |-> target, error |-> "NoSuchRevision"]
    ELSE IF frame.br_to # "None" /\ revision_id[1] \notin target.ancestry
            /\ ~IsPrefix(target.history, history)
    THEN [frame |-> frame, target |-> target, error |-> "DivergedBranches"]
    ELSE [frame |->
            IF frame.br_to = "None"
            THEN [frame EXCEPT
                    !.locks = branch_locks(@, conflicts),
                    !.tree_to = IF has_conflicts(conflicts) THEN @ ELSE "created",
                    !.br_to = IF has_conflicts(conflicts) THEN @ ELSE "created"]
            ELSE IF frame.tree_to # "None" THEN frame
            ELSE [frame EXCEPT
                    !.locks = pull_no_tree_locks(@, conflicts),
                    !.tree_to = IF has_conflicts(conflicts) THEN @ ELSE "created",
                    !.br_to = IF has_conflicts(conflicts) THEN @ ELSE "created"],
          target |-> pulled(target, history, revision_id, conflicts),
          error |-> IF has_conflicts(conflicts) THEN "Conflicts... aborting."
                    ELSE ""]

\* update_branch(base_branch, tree_to, br_to, to_transport): the result of
\* pull_or_branch with the revid given to the branch of the plan
update_branch(branch, frame, target, history, conflicts) ==
    IF ~revision_of(branch.revspec, history)[1]
    THEN [frame |-> frame, target |-> target, error |-> "InvalidRevisionSpec",
          revid |-> branch.revid]
    ELSE [revid |-> revision_of(branch.revspec, history)[2]]
         @@ pull_or_branch(frame, target, history,
                           revision_of(branch.revspec, history)[2], conflicts)

\* a variant of commit_parents that starts from the first revision
commit_on_first(target, merge_revid) ==
    <<target.history[1]>> \o target.pending \o merge_revid

\* a variant of commit_parents that names the merged revision first
commit_parents_merged_first(target, merge_revid) ==
    merge_revid \o <<target.history[Len(target.history)]>> \o target.pending

\* the parents of the revision tree_to.commit records: the tip of the tree,
\* then its pending merges
commit_parents(target, merge_revid) ==
    <<target.history[Len(target.history)]>> \o target.pending \o merge_revid

\* merge_branch(child_branch, tree_to, br_to): the revid given to
\* child_branch, the target, the error raised ("" if it returned), the
\* revision committed (None if none was) and its parents.  conflict_count
\* is what merger.do_merge() returns; commit_id is the id of the revision a
\* commit creates.
merge_branch(child_branch, target, history, conflict_count, commit_id) ==
    IF ~revision_of(child_branch.revspec, history)[1]
    THEN [revid |-> child_branch.revid, target |-> target,
          error |-> "InvalidRevisionSpec", commit |-> None, parents |-> <<>>,
          conflicts |-> FALSE]
    ELSE IF RevisionIndex(history,
                          revision_of(child_branch.revspec, history)[2]) = 0
    THEN [revid |-> revision_of(child_branch.revspec, history)[2],
          target |-> target, error |-> "NoSuchRevision", commit |-> None,
          parents |-> <<>>, conflicts |-> FALSE]
    ELSE IF revision_of(child_branch.revspec, history)[2][1] \in target.ancestry
    THEN [revid |-> revision_of(child_branch.revspec, history)[2],
          target |-> target, error |-> "", commit |-> None, parents |-> <<>>,
          conflicts |-> FALSE]
    ELSE IF conflicts_from_merge(conflict_count)
    THEN [revid |-> revision_of(child_branch.revspec, history)[2],
          target |-> [target EXCEPT
                        !.pending = @ \o revision_of(child_branch.revspec,
                                                     history)[2],
                        !.conflicts = conflict_count > 0],
          error |-> "Conflicts from merge", commit |-> None, parents |-> <<>>,
          conflicts |-> conflict_count > 0]
    ELSE [revid |-> revision_of(child_branch.revspec, history)[2],
          target |-> [target EXCEPT
                        !.conflicts = conflict_count > 0,
                        !.history = Append(@, commit_id),
                        !.ancestry = @ \cup {commit_id} \cup
                            {history[k] : k \in 1..RevisionIndex(history,
                                revision_of(child_branch.revspec, history)[2])}],
          error |-> "", commit |-> <<commit_id>>,
          parents |-> commit_parents(target,
                          revision_of(child_branch.revspec, history)[2]),
          conflicts |-> conflict_count > 0]

\* build_tree, recipe.py 314-321: the two finally blocks
finally_unlock(frame) ==
    [frame EXCEPT
       !.phase = "returned",
       !.locks =
           IF frame.br_to # "None" /\ frame.tree_to # "None"
           THEN unlock(unlock(@, "br_" \o frame.br_to), "tree_" \o frame.tree_to)
           ELSE IF frame.br_to # "None" THEN unlock(@, "br_" \o frame.br_to)
           ELSE IF frame.tree_to # "None" THEN unlock(@, "tree_" \o frame.tree_to)
           ELSE @]

\* an entry of the log of what build_tree did: the step (a "fetch" by
\* update_branch, a "merge" by merge_branch, the "return" of a build_tree
\* call), the branch of the plan and the target path it was about, the
\* revision it asked for, the revision it committed with its parents,
\* whether the tree had conflicts after it, the error it raised, the
\* mainline it left in the target, and the locks left when it returned
Op(op, branch, path) ==
    [op |-> op, branch |-> branch, path |-> path, revid |-> None,
     commit |-> None, parents |-> <<>>, conflicts |-> FALSE, error |-> "",
     tip |-> <<>>, locks |-> NoLocks]

\* a datetime.datetime, as far as strftime("%Y%m%d%H%M") looks at it
datetime(year, month, day, hour, minute) ==
    [year |-> year, month |-> month, day |-> day, hour |-> hour,
     minute |-> minute]

\* the decimal digits of n, zero-padded to width
RECURSIVE Padded(_, _)
Padded(n, width) ==
    IF width = 0 THEN ""
    ELSE Padded(n \div 10, width - 1) \o RevnoStr(n % 10)

\* time.strftime("%Y%m%d%H%M")
strftime(time) ==
    << Padded(time.year, 4) \o Padded(time.month, 2) \o Padded(time.day, 2)
       \o Padded(time.hour, 2) \o Padded(time.minute, 2) >>

\* a variant of substitute_time that puts the time after the placeholder
substitute_time_after(deb_version, time) ==
    StrReplace(deb_version, <<"{time}">>, <<"{time}">> \o strftime(time))

\* BaseRecipeBranch.substitute_time
substitute_time(deb_version, time) ==
    IF StrContains(deb_version, <<"{time}">>)
    THEN StrReplace(deb_version, <<"{time}">>, strftime(time))
    ELSE deb_version

(***************************************************************************)
(* Inputs.                                                                 *)
(***************************************************************************)
MaxLines == 5      \* lines after the header in a recipe given to the parser
MaxHistory == 2    \* revisions of a source branch

Header(deb_version) ==
    <<"#", " ", "bzr-builder", " ", "format", " ", "0", ".", "1", " ",
      "deb-version", " ">> \o deb_version

\* the header of a recipe of format 0.2
Header_0_2(deb_version) ==
    <<"#", " ", "bzr-builder", " ", "format", " ", "0", ".", "2", " ",
      "deb-version", " ">> \o deb_version

Urls == {<<"u1">>, <<"u2">>}

RevisionIds(url) == [n \in 1..MaxHistory |-> url[1] \o "-r" \o RevnoStr(n)]

\* every source branch with a history of 1..MaxHistory revisions
Histories == [Urls -> 1..MaxHistory]
VcsOf(h) == [url \in Urls |-> SubSeq(RevisionIds(url), 1, h[url])]

\* the leading whitespace of a line: levels 0 to 2, an odd indent, a tab
Indents == {<<>>, <<" ", " ">>, <<" ", " ", " ", " ">>, <<" ">>, <<"\t">>}

LineBodies ==
    { <<"u1">>,
      <<"u1", " ", "2">>,
      <<"merge", " ", "foo", " ", "u1">>,
      <<"merge", " ", "bar", " ", "u2", " ", "1">>,
      <<"nest", " ", "foo", " ", "u1", " ", "d1">>,
      <<"nest", " ", "bar", " ", "u2", " ", "d2", " ", "revid:", "u2-r1">>,
      <<"nest", " ", "foo", " ", "u2", " ", "d1", " ", "1">>,
      <<"cat">>,
      <<"#", " ", "c">>,
      <<"run", " ", "touch", " ", "test", " ">>,
      <<>> }

RecipeLines == {i \o b : i \in Indents, b \in LineBodies}

DebVersions ==
    { <<"1">>,
      <<"1", "-", "{revno}", "-", "{revno:", "foo", "}">>,
      <<"{debupstream}", "-", "{revno}">> }

\* the recipes given to resolve_revisions: every line of a skeleton with
\* each of the revision specs a branch of its url can carry
Skeletons ==
    { << [line |-> <<"u1">>, url |-> <<"u1">>] >>,
      << [line |-> <<"u1">>, url |-> <<"u1">>],
         [line |-> <<"merge", " ", "foo", " ", "u2">>, url |-> <<"u2">>] >>,
      << [line |-> <<"u1">>, url |-> <<"u1">>],
         [line |-> <<"merge", " ", "bar", " ", "u2">>, url |-> <<"u2">>] >>,
      << [line |-> <<"u1">>, url |-> <<"u1">>],
         [line |-> <<"merge", " ", "foo", " ", "u1">>, url |-> <<"u1">>] >>,
      << [line |-> <<"u1">>, url |-> <<"u1">>],
         [line |-> <<"nest", " ", "foo", " ", "u2", " ", "d1">>, url |-> <<"u2">>] >>,
      << [line |-> <<"u1">>, url |-> <<"u1">>],
         [line |-> <<"nest", " ", "foo", " ", "u2", " ", "d1">>, url |-> <<"u2">>],
         [line |-> <<" ", " ", "merge", " ", "bar", " ", "u1">>, url |-> <<"u1">>] >>,
      << [line |-> <<"u1">>, url |-> <<"u1">>],
         [line |-> <<"nest", " ", "foo", " ", "u2", " ", "d1">>, url |-> <<"u2">>],
         [line |-> <<"merge", " ", "bar", " ", "u1">>, url |-> <<"u1">>] >> }

\* the revision specs written for a branch of url: none, a revno, a revid
Revspecs(url) ==
    <<None, <<"1">>, <<"2">>, <<"revid:", RevisionIds(url)[1]>>>>

Pinned(l, choice) ==
    IF Revspecs(l.url)[choice] = None THEN l.line
    ELSE l.line \o <<" ">> \o Revspecs(l.url)[choice]

RecipesOf(skeleton) ==
    { <<Header(<<"1">>)>> \o [k \in 1..Len(skeleton) |-> Pinned(skeleton[k], f[k])] :
        f \in [1..Len(skeleton) -> 1..4] }

ResolveRecipes == UNION {RecipesOf(skeleton) : skeleton \in Skeletons}

(***************************************************************************)
(* SpecParse: RecipeParser(text).parse() pass by pass, then the plan is    *)
(* resolved, its manifest built and the manifest parsed again.  The parser *)
(* reads the text one line at a time and never looks ahead, so a line of   *)
(* the text is chosen when the loop first reaches it, and the text ends    *)
(* where ParseReturn is taken.                                             *)
(***************************************************************************)
NoParser == RecipeParser(<<>>)
NoResolution == Resolution(NoPlan)
NoManifest == [error |-> "", manifest |-> <<>>]
NoTime == datetime(0, 0, 0, 0, 0)

NoCommand ==
    [command |-> "", manifest |-> FALSE, no_build |-> FALSE, temp_dir |-> FALSE,
     basedir |-> "absent", retcode |-> "", result |-> "", notes |-> <<>>,
     written |-> {}, renamed |-> FALSE, time |-> NoTime]

\* the state of the variables of a build while no command runs
NoBuild ==
    /\ cmd = NoCommand
    /\ targets = [path \in Paths |-> NoTarget]
    /\ stack = <<>>
    /\ raised = ""
    /\ ops = <<>>

InitParse ==
    /\ text \in {<<Header(d)>> : d \in DebVersions} \cup {<<Header_0_2(<<"1">>)>>}
    /\ parser = RecipeParser(text)
    /\ pc = "parse_header"
    /\ vcs = VcsOf([url \in Urls |-> MaxHistory])
    /\ base_branch = NoPlan
    /\ old_recipe = NoPlan
    /\ resolution = NoResolution
    /\ manifest = NoManifest
    /\ reparsed = NoParser
    /\ NoBuild

ParseHeader ==
    /\ pc = "parse_header"
    /\ parser' = parse_header(parser)
    /\ pc' = IF Failed(parser') THEN "parse_error" ELSE "parse_loop"
    /\ UNCHANGED <<text, manifest, reparsed, vcs, base_branch, old_recipe,
                   resolution, build_vars>>

ParseLine ==
    /\ pc = "parse_loop"
    /\ Len(text) <= MaxLines
    /\ \E line \in RecipeLines :
          /\ text' = Append(text, line)
          /\ parser' = parse_line([parser EXCEPT !.lines = text'])
    /\ pc' = IF Failed(parser') THEN "parse_error" ELSE "parse_loop"
    /\ UNCHANGED <<manifest, reparsed, plan_vars, build_vars>>

ParseReturn ==
    /\ pc = "parse_loop"
    /\ parser.line_index >= Len(parser.lines)
    /\ parser' = parse_return(parser)
    /\ pc' = IF Failed(parser') THEN "parse_error" ELSE "parsed"
    /\ base_branch' = IF Failed(parser') THEN NoPlan ELSE PlanOf(parser')
    /\ UNCHANGED <<text, manifest, reparsed, vcs, old_recipe, resolution,
                   build_vars>>

ResolveParsed ==
    /\ pc = "parsed"
    /\ resolution' = resolve_revisions(base_branch, vcs, NoPlan)
    /\ base_branch' = ResolvedPlan(resolution')
    /\ pc' = IF resolution'.error # "" THEN "resolve_error" ELSE "resolved"
    /\ UNCHANGED <<parse_vars, vcs, old_recipe, build_vars>>

BuildManifest ==
    /\ pc = "resolved"
    /\ manifest' = build_manifest(base_branch)
    /\ reparsed' = IF manifest'.error = "" THEN parse(manifest'.manifest)
                   ELSE NoParser
    /\ pc' = IF manifest'.error = "" THEN "manifest" ELSE "manifest_error"
    /\ UNCHANGED <<text, parser, plan_vars, build_vars>>

NextParse ==
    \/ ParseHeader
    \/ ParseLine
    \/ ParseReturn
    \/ ResolveParsed
    \/ BuildManifest

SpecParse == InitParse /\ [][NextParse]_vars

(***************************************************************************)
(* SpecResolve: the change detection of _get_prepared_branch_from_recipe.  *)
(* A recipe has been parsed; the old recipe is read (any recipe, or the    *)
(* manifest an earlier build of this recipe wrote while the source         *)
(* branches were at most where they are now, or none) and                  *)
(* resolve_revisions compares the two.                                     *)
(***************************************************************************)
\* build_manifest of a plan resolved by r, if r did not raise
manifest_of(r) ==
    IF r.error # "" THEN [error |-> r.error, manifest |-> <<>>]
    ELSE build_manifest(ResolvedPlan(r))

\* the manifest a build of plan writes while the source branches are srcs
earlier_manifest(plan, srcs) == manifest_of(resolve_revisions(plan, srcs, NoPlan))

InitResolve ==
    /\ text \in ResolveRecipes
    /\ parser = parse(text)
    /\ pc = "get_old_recipe"
    /\ vcs \in {VcsOf(h) : h \in Histories}
    /\ base_branch = PlanOf(parser)
    /\ old_recipe = NoPlan
    /\ resolution = NoResolution
    /\ manifest = NoManifest
    /\ reparsed = NoParser
    /\ NoBuild

\* get_old_recipe, the file being a recipe
GetOldRecipe ==
    /\ pc = "get_old_recipe"
    /\ \E recipe \in ResolveRecipes :
          /\ reparsed' = parse(recipe)
          /\ old_recipe' = PlanOf(reparsed')
    /\ pc' = "resolve_revisions"
    /\ UNCHANGED <<text, parser, manifest, vcs, base_branch, resolution,
                   build_vars>>

\* get_old_recipe, the file being the manifest of an earlier build
GetOldManifest ==
    /\ pc = "get_old_recipe"
    /\ \E h \in Histories :
          /\ \A url \in Urls : h[url] <= Len(vcs[url])
          /\ manifest' = earlier_manifest(base_branch, VcsOf(h))
    /\ manifest'.error = ""
    /\ reparsed' = parse(manifest'.manifest)
    /\ old_recipe' = PlanOf(reparsed')
    /\ pc' = "resolve_revisions"
    /\ UNCHANGED <<text, parser, vcs, base_branch, resolution, build_vars>>

\* no --if-changed-from, or get_old_recipe found no file
NoOldRecipe ==
    /\ pc = "get_old_recipe"
    /\ pc' = "resolve_revisions"
    /\ UNCHANGED <<parse_vars, plan_vars, build_vars>>

ResolveRevisions ==
    /\ pc = "resolve_revisions"
    /\ resolution' = resolve_revisions(base_branch, vcs, old_recipe)
    /\ base_branch' = ResolvedPlan(resolution')
    /\ pc' = IF resolution'.error # "" THEN "resolve_error" ELSE "resolved"
    /\ UNCHANGED <<parse_vars, vcs, old_recipe, build_vars>>

NextResolve ==
    \/ GetOldRecipe
    \/ GetOldManifest
    \/ NoOldRecipe
    \/ ResolveRevisions

SpecResolve == InitResolve /\ [][NextResolve]_vars

(***************************************************************************)
(* SpecBuild: the build and dailydeb commands (run without --dput,         *)
(* --key-id and --watch-ppa) on a recipe that parses: the recipe is        *)
(* prepared, and unless it is unchanged build_tree builds it, one step of  *)
(* build_tree at a time, and the manifest is written.  The source branches *)
(* can gain revisions while the command runs.                              *)
(***************************************************************************)
BuildRecipes ==
    { << Header(<<"1", "-", "{revno}">>), <<"u1">>,
         <<"merge", " ", "foo", " ", "u2", " ", "1">>,
         <<"merge", " ", "bar", " ", "u2">>, <<>> >>,
      << Header(<<"1">>), <<"u1">>,
         <<"nest", " ", "foo", " ", "u2", " ", "d1">>,
         <<" ", " ", "merge", " ", "bar", " ", "u1">>,
         <<"merge", " ", "baz", " ", "u2">>, <<>> >>,
      << Header(<<"{time}">>), <<"u1", " ", "1">>,
         <<"nest", " ", "foo", " ", "u2", " ", "d1">>,
         <<" ", " ", "nest", " ", "bar", " ", "u1", " ", "d2">>,
         <<" ", " ", " ", " ", "merge", " ", "baz", " ", "u2">>, <<>> >>,
      << Header(<<"1">>), <<"u1">>,
         <<"merge", " ", "foo", " ", "u1">>, <<>> >>,
      << Header(<<"{debupstream}", "-", "{revno}">>), <<"u1">>, <<>> >>,
      << Header(<<"1", "-", "{", "foo", "}">>), <<"u1">>, <<>> >>,
      << Header(<<"1", "-", "{revno}">>),
         <<"u1", " ", "revid:", "u2-r1">>, <<>> >> }

\* datetime.datetime.utcnow()
Times == { datetime(1970, 1, 1, 0, 0), datetime(2026, 11, 5, 12, 30) }

\* the ways the commands are run: build with or without --manifest, and
\* dailydeb with or without --manifest, --no-build and a working_basedir,
\* which exists or not
BuildCommands ==
    { [NoCommand EXCEPT !.command = "build", !.manifest = m, !.basedir = d] :
        m \in BOOLEAN, d \in {"absent", "exists"} }
    \cup
    { [NoCommand EXCEPT !.command = "dailydeb", !.manifest = m, !.no_build = n,
                        !.temp_dir = (d = "temp"),
                        !.basedir = IF d = "temp" THEN "absent" ELSE d] :
        m \in BOOLEAN, n \in BOOLEAN, d \in {"absent", "exists", "temp"} }

InitBuild ==
    /\ text \in BuildRecipes
    /\ parser = RecipeParser(text)
    /\ pc = "prepare"
    /\ vcs \in {VcsOf(h) : h \in Histories}
    /\ base_branch = NoPlan
    /\ old_recipe = NoPlan
    /\ resolution = NoResolution
    /\ manifest = NoManifest
    /\ reparsed = NoParser
    /\ cmd \in BuildCommands
    /\ targets = [path \in Paths |-> NoTarget]
    /\ stack = <<>>
    /\ raised = ""
    /\ ops = <<>>

\* the plan of get_branch_from_recipe_file after substitute_time
timed_plan(s, time) ==
    [nodes |-> s.nodes, deb_version |-> substitute_time(s.deb_version, time)]

\* the end of _get_prepared_branch_from_recipe, resolve_revisions having
\* left the state r
prepared(c, r) ==
    IF r.error # "" THEN [c EXCEPT !.result = "error"]
    ELSE IF ~r.changed
    THEN [c EXCEPT !.notes = Append(@, "Unchanged"), !.retcode = "0"]
    ELSE [c EXCEPT !.retcode = "None"]

\* _get_prepared_branch_from_recipe
Prepare ==
    /\ pc = "prepare"
    /\ parser' = parse(text)
    /\ ~Failed(parser')
    /\ \/ /\ old_recipe' = NoPlan
          /\ reparsed' = reparsed
       \/ \E h \in Histories :
             /\ \A url \in Urls : h[url] <= Len(vcs[url])
             /\ earlier_manifest(PlanOf(parser'), VcsOf(h)).error = ""
             /\ reparsed' = parse(earlier_manifest(PlanOf(parser'),
                                                   VcsOf(h)).manifest)
             /\ old_recipe' = PlanOf(reparsed')
    /\ \E time \in Times :
          /\ resolution' = resolve_revisions(timed_plan(parser', time), vcs,
                                             old_recipe')
          /\ cmd' = prepared([cmd EXCEPT !.time = time], resolution')
    /\ base_branch' = ResolvedPlan(resolution')
    /\ raised' = resolution'.error
    /\ pc' = IF resolution'.error # "" THEN "failed" ELSE "prepared"
    /\ UNCHANGED <<text, manifest, vcs, targets, stack, ops>>

\* a variant of returns_result that never returns early
never_returns(result) == FALSE

\* if result is not None: return result
returns_result(result) == result # "None"

\* run returns the retcode of the preparation
ReturnResult ==
    /\ pc = "prepared"
    /\ returns_result(cmd.retcode)
    /\ cmd' = [cmd EXCEPT !.result = cmd.retcode]
    /\ pc' = "returned"
    /\ UNCHANGED <<parse_vars, plan_vars, targets, stack, raised, ops>>

\* dailydeb: mkdtemp or makedirs of working_basedir
make_basedir(c) ==
    IF c.command # "dailydeb" THEN c
    ELSE IF c.temp_dir THEN [c EXCEPT !.basedir = "temp"]
    ELSE IF c.basedir = "absent" THEN [c EXCEPT !.basedir = "created"]
    ELSE c

\* run goes on to build_tree(base_branch, working_directory)
StartBuild ==
    /\ pc = "prepared"
    /\ ~returns_result(cmd.retcode)
    /\ cmd' = make_basedir(cmd)
    /\ stack' = <<Frame(1, <<>>)>>
    /\ pc' = "build_tree"
    /\ UNCHANGED <<parse_vars, plan_vars, targets, raised, ops>>

\* a source branch gains a revision
SourceCommit ==
    /\ pc \in {"prepared", "build_tree"}
    /\ \E url \in Urls :
          /\ Len(vcs[url]) < MaxHistory
          /\ vcs' = [vcs EXCEPT ![url] =
                        Append(@, RevisionIds(url)[Len(vcs[url]) + 1])]
    /\ UNCHANGED <<pc, parse_vars, base_branch, old_recipe, resolution,
                   build_vars>>

\* the build_tree call that is running
Top == stack[Len(stack)]

\* the id of the revision the next commit creates
NextCommitId ==
    "c" \o RevnoStr(Cardinality({k \in 1..Len(ops) : ops[k].commit # None}) + 1)

\* build_tree: BzrDir.open_tree_or_branch(target_path) and the locks.  The
\* working directory holds nothing when it did not exist before the command.
OpenTarget ==
    /\ pc = "build_tree"
    /\ stack # <<>>
    /\ Top.phase = "open"
    /\ \E kind \in TargetKinds,
          tip \in 1..Len(vcs[base_branch.nodes[Top.branch].url]) :
          /\ (Top.path = <<>> /\ cmd.basedir # "exists") => kind = "none"
          /\ targets' = [targets EXCEPT ![Top.path] =
                 existing_target(kind, vcs[base_branch.nodes[Top.branch].url],
                                 tip)]
    /\ stack' = [stack EXCEPT ![Len(stack)] = open_target(@, targets'[Top.path])]
    /\ UNCHANGED <<pc, parse_vars, plan_vars, cmd, raised, ops>>

\* build_tree: tree_to, br_to = update_branch(base_branch, tree_to, br_to,
\* to_transport)
UpdateBranch ==
    /\ pc = "build_tree"
    /\ stack # <<>>
    /\ Top.phase = "update"
    /\ \E conflicts \in 0..MaxConflicts :
          LET result == update_branch(base_branch.nodes[Top.branch], Top,
                            targets[Top.path],
                            vcs[base_branch.nodes[Top.branch].url], conflicts)
          IN  /\ base_branch' =
                     [base_branch EXCEPT !.nodes[Top.branch].revid = result.revid]
              /\ targets' = [targets EXCEPT ![Top.path] = result.target]
              /\ stack' = [stack EXCEPT ![Len(stack)] =
                     [result.frame EXCEPT
                        !.phase = IF result.error # "" THEN "finally"
                                  ELSE "children"]]
              /\ raised' = result.error
              /\ ops' = Append(ops,
                     [Op("fetch", Top.branch, Top.path) EXCEPT
                        !.revid = result.revid,
                        !.conflicts = result.target.conflicts,
                        !.error = result.error,
                        !.tip = result.target.history])
    /\ UNCHANGED <<pc, parse_vars, vcs, old_recipe, resolution, cmd>>

\* the child instruction the loop of the running build_tree has reached
Child == base_branch.nodes[Top.branch].child_branches[Top.index]

AtChild ==
    /\ pc = "build_tree"
    /\ stack # <<>>
    /\ Top.phase = "children"
    /\ Top.index <= Len(base_branch.nodes[Top.branch].child_branches)

\* build_tree: build_tree(child_branch, os.path.join(target_path,
\* nest_location)) is called
NestChild ==
    /\ AtChild
    /\ Child[2] # None
    /\ stack' = Append(stack, Frame(Child[1], Top.path \o Child[2]))
    /\ UNCHANGED <<pc, parse_vars, plan_vars, cmd, targets, raised, ops>>

\* build_tree: merge_branch(child_branch, tree_to, br_to)
MergeChild ==
    /\ AtChild
    /\ Child[2] = None
    /\ \E conflict_count \in 0..MaxConflicts :
          LET result == merge_branch(base_branch.nodes[Child[1]],
                            targets[Top.path],
                            vcs[base_branch.nodes[Child[1]].url],
                            conflict_count, NextCommitId)
          IN  /\ base_branch' =
                     [base_branch EXCEPT !.nodes[Child[1]].revid = result.revid]
              /\ targets' = [targets EXCEPT ![Top.path] = result.target]
              /\ stack' = [stack EXCEPT ![Len(stack)] =
                     IF result.error # "" THEN [@ EXCEPT !.phase = "finally"]
                     ELSE [@ EXCEPT !.index = @ + 1]]
              /\ raised' = result.error
              /\ ops' = Append(ops,
                     [Op("merge", Child[1], Top.path) EXCEPT
                        !.revid = result.revid,
                        !.commit = result.commit,
                        !.parents = result.parents,
                        !.conflicts = result.conflicts,
                        !.error = result.error,
                        !.tip = result.target.history])
    /\ UNCHANGED <<pc, parse_vars, vcs, old_recipe, resolution, cmd>>

\* the exception that leaves build_tree after its finally blocks
leaving(frame, exception) ==
    IF finally_unlock(frame).locks.not_held THEN "LockNotHeld" ELSE exception

\* the caller of a build_tree that has returned or raised
resume(frame, exception) ==
    IF exception # "" THEN [frame EXCEPT !.phase = "finally"]
    ELSE [frame EXCEPT !.index = @ + 1]

\* dailydeb: the finally that removes the temporary directory
remove_temp_dir(c) ==
    IF c.command = "dailydeb" /\ c.temp_dir THEN [c EXCEPT !.basedir = "removed"]
    ELSE c

\* the command ends with an exception
failed(c) == [remove_temp_dir(c) EXCEPT !.result = "error"]

\* build_tree: the finally blocks, and the return to the caller
Finally ==
    /\ pc = "build_tree"
    /\ stack # <<>>
    /\ \/ Top.phase = "finally"
       \/ /\ Top.phase = "children"
          /\ Top.index > Len(base_branch.nodes[Top.branch].child_branches)
    /\ raised' = leaving(Top, raised)
    /\ ops' = Append(ops, [Op("return", Top.branch, Top.path) EXCEPT
                             !.error = raised',
                             !.locks = finally_unlock(Top).locks])
    /\ stack' = IF Len(stack) = 1 THEN <<>>
                ELSE [SubSeq(stack, 1, Len(stack) - 1) EXCEPT
                        ![Len(stack) - 1] = resume(@, raised')]
    /\ pc' = IF Len(stack) > 1 THEN pc
             ELSE IF raised' # "" THEN "failed" ELSE "built"
    /\ cmd' = IF Len(stack) = 1 /\ raised' # "" THEN failed(cmd) ELSE cmd
    /\ UNCHANGED <<parse_vars, plan_vars, targets>>

\* where the command writes its manifest after the build
manifest_path(c) ==
    IF c.command = "dailydeb" THEN "debian/bzr-builder.manifest"
    ELSE IF c.manifest THEN "--manifest"
    ELSE "bzr-builder.manifest"

\* write_manifest_to_path(manifest_path, base_branch)
WriteManifest ==
    /\ pc = "built"
    /\ manifest' = build_manifest(base_branch)
    /\ raised' = manifest'.error
    /\ cmd' = IF manifest'.error # "" THEN failed(cmd)
              ELSE IF cmd.command = "build"
              THEN [cmd EXCEPT !.written = @ \cup {manifest_path(cmd)},
                               !.result = "None"]
              ELSE [cmd EXCEPT !.written = @ \cup {manifest_path(cmd)}]
    /\ pc' = IF manifest'.error # "" THEN "failed"
             ELSE IF cmd.command = "build" THEN "returned"
             ELSE "manifest_written"
    /\ UNCHANGED <<text, parser, reparsed, plan_vars, targets, stack, ops>>

\* add_changelog_entry(base_branch, working_directory, package=package): the
\* error it raises ("" if it returns).  changelog tells whether
\* debian/changelog holds an entry, package whether --package was given.
\* BaseRecipeBranch has no substitute_debupstream method.
add_changelog_entry(deb_version, changelog, package) ==
    IF changelog
    THEN IF StrContains(deb_version, <<"{debupstream}">>) THEN "AttributeError"
         ELSE ""
    ELSE IF ~package
    THEN "BzrCommandError: No previous changelog to take the package name from"
    ELSE IF StrContains(deb_version, <<"{debupstream}">>)
    THEN "BzrCommandError: No previous changelog to take the upstream version from"
    ELSE ""

\* dailydeb: add_changelog_entry, which can fail, and
\* os.rename(working_directory, package_dir)
RenameToPackageDir ==
    /\ pc = "manifest_written"
    /\ \E changelog \in BOOLEAN, package \in BOOLEAN :
          /\ raised' = add_changelog_entry(base_branch.deb_version, changelog,
                                           package)
          /\ cmd' = IF raised' = "" THEN [cmd EXCEPT !.renamed = TRUE]
                    ELSE failed(cmd)
          /\ pc' = IF raised' = "" THEN "renamed" ELSE "failed"
    /\ UNCHANGED <<parse_vars, plan_vars, targets, stack, ops>>

\* the manifest written to the path of --manifest, if it was given
write_option_manifest(c) ==
    IF c.manifest THEN [c EXCEPT !.written = @ \cup {"--manifest"}] ELSE c

\* dailydeb: if no_build: ... return 0
NoBuildReturn ==
    /\ pc = "renamed"
    /\ cmd.no_build
    /\ cmd' = [remove_temp_dir(write_option_manifest(cmd)) EXCEPT !.result = "0"]
    /\ pc' = "returned"
    /\ UNCHANGED <<parse_vars, plan_vars, targets, stack, raised, ops>>

\* dailydeb: build_source_package, which can fail, the rename back in its
\* finally, and the end of run
BuildSourcePackage ==
    /\ pc = "renamed"
    /\ ~cmd.no_build
    /\ \E built \in BOOLEAN :
          /\ cmd' = IF built
                    THEN [remove_temp_dir(write_option_manifest(
                              [cmd EXCEPT !.renamed = FALSE]))
                            EXCEPT !.result = "None"]
                    ELSE failed([cmd EXCEPT !.renamed = FALSE])
          /\ raised' = IF built THEN "" ELSE "BzrCommandError"
          /\ pc' = IF built THEN "returned" ELSE "failed"
    /\ UNCHANGED <<parse_vars, plan_vars, targets, stack, ops>>

NextBuild ==
    \/ Prepare
    \/ ReturnResult
    \/ StartBuild
    \/ SourceCommit
    \/ OpenTarget
    \/ UpdateBranch
    \/ NestChild
    \/ MergeChild
    \/ Finally
    \/ WriteManifest
    \/ RenameToPackageDir
    \/ NoBuildReturn
    \/ BuildSourcePackage

SpecBuild == InitBuild /\ [][NextBuild]_vars

(***************************************************************************)
(* SpecTime: a BaseRecipeBranch with a deb-version template is created     *)
(* from a recipe and substitute_time is applied to it, and applied again   *)
(* with the same datetime.                                                 *)
(***************************************************************************)
MaxTemplate == 3    \* symbols in a deb-version template

TemplateSymbols == {"1", "-", "{time}", "{date}", "{revno}"}

RECURSIVE TemplatesOf(_)
TemplatesOf(n) ==
    IF n = 1 THEN {<<sym>> : sym \in TemplateSymbols}
    ELSE TemplatesOf(n - 1)
         \cup {Append(t, sym) : t \in TemplatesOf(n - 1), sym \in TemplateSymbols}

Templates == TemplatesOf(MaxTemplate)

InitTime ==
    /\ \E template \in Templates : text = <<Header(template), <<"u1">>>>
    /\ parser = parse(text)
    /\ pc = "template"
    /\ vcs = VcsOf([url \in Urls |-> MaxHistory])
    /\ base_branch = PlanOf(parser)
    /\ old_recipe = NoPlan
    /\ resolution = NoResolution
    /\ manifest = NoManifest
    /\ reparsed = NoParser
    /\ cmd \in {[NoCommand EXCEPT !.time = time] : time \in Times}
    /\ targets = [path \in Paths |-> NoTarget]
    /\ stack = <<>>
    /\ raised = ""
    /\ ops = <<>>

\* base_branch.substitute_time(time)
SubstituteTime ==
    /\ pc = "template"
    /\ base_branch' = [base_branch EXCEPT
                         !.deb_version = substitute_time(@, cmd.time)]
    /\ pc' = "timed"
    /\ UNCHANGED <<parse_vars, vcs, old_recipe, resolution, build_vars>>

\* base_branch.substitute_time(time), once more
SubstituteTimeAgain ==
    /\ pc = "timed"
    /\ base_branch' = [base_branch EXCEPT
                         !.deb_version = substitute_time(@, cmd.time)]
    /\ pc' = "timed_twice"
    /\ UNCHANGED <<parse_vars, vcs, old_recipe, resolution, build_vars>>

NextTime ==
    \/ SubstituteTime
    \/ SubstituteTimeAgain

SpecTime == InitTime /\ [][NextTime]_vars

(***************************************************************************)
(* Properties of the parser and of the manifest round trip (SpecParse).    *)
(***************************************************************************)
\* C5: round trip.  Once a parsed and resolved plan P has been given to
\* build_manifest, build_manifest has returned a text, parsing that text
\* succeeded, and the plan Q it yields has the shape of P: the same names,
\* urls, nest locations (None for a merge) and child order at every depth,
\* and P.different_shape_to(Q) is False.
C5_RoundTrip ==
    /\ pc # "manifest_error"
    /\ pc = "manifest" =>
          /\ ~Failed(reparsed)
          /\ Shape(PlanOf(reparsed)) = Shape(base_branch)
          /\ ~different_shape_to(base_branch.nodes, 1, reparsed.nodes, 1)

\* a plan with a nest, a branch inside the nest and a merge after it went
\* through the round trip
C5_Witness ==
    /\ pc = "manifest"
    /\ Len(base_branch.nodes) >= 4
    /\ \E k \in 1..Len(Shape(base_branch)) :
          /\ Shape(base_branch)[k][1] = 2
          /\ k < Len(Shape(base_branch))
          /\ Shape(base_branch)[k + 1][1] = 1

\* the branch names a parser has handed out so far are pairwise different
UniqueNames(nodes) ==
    \A i, j \in 1..Len(nodes) :
        (i < j /\ nodes[i].name = nodes[j].name) => nodes[i].name = None

\* C9: a recipe in which two instructions use the same branch name fails to
\* parse: the parser never holds two branches of the same name, because
\* reading the second one raised the RecipeParseError "'<name>' was already
\* used to identify a branch."
C9_DuplicateNameRejected ==
    pc \in {"parse_loop", "parse_error", "parsed"} => UniqueNames(parser.nodes)

\* the line of the text the last pass of the loop read
LastLine == text[Len(text)]

IsBlank(line) == WhitespaceRun(line, 0) = Len(line)

\* the indent level of a line indented by spaces, two per level
LevelOf(line) == WhitespaceRun(line, 0) \div 2

\* the position in the text of the instruction line (base branch, merge or
\* nest) that precedes the last line, 0 if there is none
PrecedingInstruction ==
    IF \E j \in 2..(Len(text) - 1) : ~IsBlank(text[j])
    THEN CHOOSE j \in 2..(Len(text) - 1) :
             /\ ~IsBlank(text[j])
             /\ \A k \in (j + 1)..(Len(text) - 1) : IsBlank(text[k])
    ELSE 0

\* the last line is not blank and is indented one level deeper than the
\* instruction line before it, which is not a nest line
IndentedAfterNonNest ==
    /\ pc \in {"parse_loop", "parse_error"}
    /\ Len(text) >= 3
    /\ ~IsBlank(LastLine)
    /\ PrecedingInstruction # 0
    /\ LevelOf(LastLine) = LevelOf(text[PrecedingInstruction]) + 1
    /\ text[PrecedingInstruction][WhitespaceRun(text[PrecedingInstruction], 0) + 1]
           # "nest"

\* C10: whenever a line is indented one level deeper than the preceding
\* instruction line and that line is the base branch line or a merge line,
\* the parse has failed with "Not allowed to indent unless after a 'nest'
\* line", whatever the indented line contains.
C10_IndentAfterNonNest ==
    IndentedAfterNonNest =>
        parser.error.problem
            = <<"Not allowed to indent unless after a 'nest' line">>

\* the position in the text of the n-th line after the header that is not
\* blank: the line that introduced the n-th branch of an accepted recipe
NthInstruction(n) ==
    CHOOSE k \in 2..Len(text) :
        /\ ~IsBlank(text[k])
        /\ Cardinality({j \in 2..k : ~IsBlank(text[j])}) = n

\* the first word of a line
FirstWord(line) ==
    SubSeq(line, WhitespaceRun(line, 0) + 1,
           WhitespaceRun(line, 0) + WordRun(line, WhitespaceRun(line, 0)))

\* the branch the n-th branch is attached to
ParentOf(nodes, n) ==
    IF \E p \in 1..Len(nodes) : \E i \in 1..Len(nodes[p].child_branches) :
           nodes[p].child_branches[i][1] = n
    THEN CHOOSE p \in 1..Len(nodes) : \E i \in 1..Len(nodes[p].child_branches) :
             nodes[p].child_branches[i][1] = n
    ELSE 0

\* the branch the text puts the n-th branch under: the root for a line at
\* level 0, else the branch of the nearest preceding nest line one level up
ScopeOf(n) ==
    LET level == LevelOf(text[NthInstruction(n)])
        Nests == {m \in 2..(n - 1) :
                    /\ LevelOf(text[NthInstruction(m)]) = level - 1
                    /\ FirstWord(text[NthInstruction(m)]) = <<"nest">>}
    IN  IF level = 0 THEN 1
        ELSE IF Nests = {} THEN 0
        ELSE CHOOSE m \in Nests : \A o \in Nests : o <= m

\* the children of every branch are stored in the order of their lines
ChildrenInDocumentOrder(nodes) ==
    \A p \in 1..Len(nodes) : \A i, j \in 1..Len(nodes[p].child_branches) :
        i < j => nodes[p].child_branches[i][1] < nodes[p].child_branches[j][1]

\* C11: in every accepted recipe an instruction at level 0 is a child of the
\* root branch, an instruction at level k >= 1 is a child of the branch of
\* the nearest preceding nest line at level k-1, and children are stored in
\* document order.
C11_ScopeAttachment ==
    pc = "parsed" =>
        /\ Len(parser.nodes) = Cardinality({k \in 2..Len(text) : ~IsBlank(text[k])})
        /\ \A n \in 2..Len(parser.nodes) :
               ParentOf(parser.nodes, n) = ScopeOf(n)
        /\ ChildrenInDocumentOrder(parser.nodes)

\* the text without the empty lines that follow the header
RECURSIVE WithoutEmptyLines(_)
WithoutEmptyLines(lines) ==
    IF Len(lines) <= 1 THEN lines
    ELSE IF lines[Len(lines)] = <<>>
    THEN WithoutEmptyLines(SubSeq(lines, 1, Len(lines) - 1))
    ELSE Append(WithoutEmptyLines(SubSeq(lines, 1, Len(lines) - 1)),
                lines[Len(lines)])

\* what a caller of parse sees: the plan, or that parse raised
ParseResult(s) == IF Failed(s) THEN <<"raised">> ELSE <<"plan", PlanOf(s)>>

\* C12: an empty line after the header is a no-op: the text parses to the
\* result of the text without its empty lines (the same plan, or a failure
\* in both cases).
C12_EmptyLineNoOp ==
    pc \in {"parsed", "parse_error"} =>
        ParseResult(parser) = ParseResult(parse(WithoutEmptyLines(text)))

\* the first character of the line that is not a space is '#'
IsComment(line) ==
    \E n \in 0..(Len(line) - 1) :
        /\ \A k \in 1..n : line[k] = " "
        /\ line[n + 1] = "#"

\* the text without the comment lines that follow the header
RECURSIVE WithoutComments(_)
WithoutComments(lines) ==
    IF Len(lines) <= 1 THEN lines
    ELSE IF IsComment(lines[Len(lines)])
    THEN WithoutComments(SubSeq(lines, 1, Len(lines) - 1))
    ELSE Append(WithoutComments(SubSeq(lines, 1, Len(lines) - 1)),
                lines[Len(lines)])

\* C13: a line after the header whose first non-space character is '#' is
\* skipped whatever its indentation: the text parses to the result of the
\* text without its comment lines.
C13_CommentSkipped ==
    pc \in {"parsed", "parse_error"} =>
        ParseResult(parser) = ParseResult(parse(WithoutComments(text)))

\* the leading whitespace of a line
LeadingWhitespace(line) == SubSeq(line, 1, WhitespaceRun(line, 0))

\* the leading whitespace of the last line holds a tab, is an odd number of
\* spaces, or is more than one level deeper than that of the line before
BadIndent ==
    \/ \E k \in 1..WhitespaceRun(LastLine, 0) : LastLine[k] = "\t"
    \/ WhitespaceRun(LastLine, 0) % 2 # 0
    \/ LevelOf(LastLine) > LevelOf(text[Len(text) - 1]) + 1

\* the last line is indented by spaces, two per level, to a level below that
\* of the line before
Dedent ==
    /\ \A k \in 1..WhitespaceRun(LastLine, 0) : LastLine[k] = " "
    /\ WhitespaceRun(LastLine, 0) % 2 = 0
    /\ LevelOf(LastLine) < LevelOf(text[Len(text) - 1])

IndentProblems ==
    { <<"Indents may not be done by tabs">>,
      <<"Indent not a multiple of two spaces">>,
      <<"Indented by more than two spaces at once">> }

\* C14: a line whose leading whitespace holds a tab, is an odd number of
\* spaces or is more than one level deeper than the previous line makes
\* parse fail with a RecipeParseError on that line, at the column just after
\* the leading whitespace; a decrease of any number of levels raises no
\* indentation error.
C14_IndentWellFormed ==
    (pc \in {"parse_loop", "parse_error"} /\ Len(text) >= 2) =>
        /\ BadIndent =>
              /\ Failed(parser) /\ ~parser.other_error
              /\ parser.error.problem \in IndentProblems
              /\ parser.error.line = Len(text)
              /\ parser.error.char = StrLen(LeadingWhitespace(LastLine)) + 1
        /\ Dedent =>
              parser.error.problem \notin
                  IndentProblems
                  \cup {<<"Not allowed to indent unless after a 'nest' line">>}

\* a merge line indented by four spaces after a line at level 0 was
\* rejected at column 5
C14_Witness ==
    /\ pc = "parse_error"
    /\ Len(text) >= 4
    /\ LeadingWhitespace(LastLine) = <<" ", " ", " ", " ">>
    /\ LevelOf(text[Len(text) - 1]) = 0
    /\ FirstWord(LastLine) = <<"merge">>
    /\ parser.error.problem = <<"Indented by more than two spaces at once">>
    /\ parser.error.char = 5

\* C15: for every text, parse either returns a complete plan or raises one
\* RecipeParseError with a 1-based line, a 1-based char and a problem text;
\* it never fails with another kind of error.
C15_OnlyParseErrors ==
    /\ pc = "parse_error" =>
          /\ ~parser.other_error
          /\ parser.error.line >= 1
          /\ parser.error.char >= 1
          /\ parser.error.problem # <<>>
    /\ pc = "parsed" =>
          /\ ~Failed(parser)
          /\ parser.line_index >= Len(text)
          /\ base_branch.nodes # <<>>

\* the last line is an unindented 'run <command>' line that follows the
\* base branch line, and the parser has read it
RunLineRead ==
    /\ pc \in {"parse_loop", "parse_error"}
    /\ Len(text) >= 3
    /\ PrecedingInstruction # 0
    /\ LastLine # <<>>
    /\ LastLine[1] = "run"

\* C23: a 'run <command>' line is accepted in a recipe whose header
\* declares format 0.2 or later, and is rejected with a RecipeParseError at
\* the first column of the line in a recipe whose header declares format 0.1.
C23_RunGatedByFormat ==
    RunLineRead =>
        IF parser.version = <<"0", ".", "1">>
        THEN /\ Failed(parser)
             /\ ~parser.other_error
             /\ parser.error.line = Len(text)
             /\ parser.error.char = 1
        ELSE ~Failed(parser)

(***************************************************************************)
(* Properties of the change detection (SpecResolve).  The revisions of the *)
(* two plans are stated from the plans and the source branches alone.      *)
(***************************************************************************)
RECURSIVE PreOrder(_, _)
RECURSIVE PreOrderFrom(_, _, _)
\* the branches of a plan, each before its children, children in order
PreOrder(nodes, self) == <<self>> \o PreOrderFrom(nodes, self, 1)
PreOrderFrom(nodes, self, index) ==
    IF index > Len(nodes[self].child_branches) THEN <<>>
    ELSE PreOrder(nodes, nodes[self].child_branches[index][1])
         \o PreOrderFrom(nodes, self, index + 1)

\* the k-th branch of the new plan and the branch of the old plan that
\* corresponds to it when the shapes are equal
NewBranch(k) == base_branch.nodes[PreOrder(base_branch.nodes, 1)[k]]
OldBranch(k) == old_recipe.nodes[PreOrder(old_recipe.nodes, 1)[k]]

\* the revisions the two plans have for their k-th branch
NewRevision(k) == revision_of(NewBranch(k).revspec, vcs[NewBranch(k).url])
OldRevision(k) == revision_of(OldBranch(k).revspec, vcs[NewBranch(k).url])

\* resolve_revisions was given an old plan and has returned
Compared == pc = "resolved" /\ old_recipe # NoPlan

SameShape == Shape(base_branch) = Shape(old_recipe)

SameRevisions ==
    \A k \in 1..Len(base_branch.nodes) : NewRevision(k) = OldRevision(k)

\* C2: for a plan P and an old plan M of the same shape, if every branch of
\* P resolves to the revision M has for the corresponding branch, then
\* resolve_revisions(P, if_changed_from=M) returns False.
C2_SameRevisionsUnchanged ==
    (Compared /\ SameShape /\ SameRevisions) => ~resolution.changed

\* a plan with a branch inside a nest, in which a branch is pinned by a
\* revision spec that differs from the old plan's, was found unchanged
C2_Witness ==
    /\ Compared /\ SameShape /\ SameRevisions
    /\ ~resolution.changed
    /\ \E k \in 1..Len(Shape(base_branch)) : Shape(base_branch)[k][1] = 2
    /\ \E k \in 1..Len(base_branch.nodes) :
          /\ NewBranch(k).revspec # None
          /\ OldBranch(k).revspec # None
          /\ NewBranch(k).revspec # OldBranch(k).revspec

\* C3: for two plans of equal shape, if at least one branch resolves in the
\* new plan to a revision different from the one the old plan has for the
\* corresponding branch, resolve_revisions returns True.
C3_DifferentRevisionChanged ==
    (Compared /\ SameShape /\ ~SameRevisions) => resolution.changed

\* only the last branch of the plan, a branch inside a nest, differs, and
\* the plan was found changed
C3_Witness ==
    /\ Compared /\ SameShape
    /\ resolution.changed
    /\ Len(base_branch.nodes) = 3
    /\ Shape(base_branch)[3][1] = 2
    /\ NewRevision(3) # OldRevision(3)
    /\ \A k \in 1..2 : NewRevision(k) = OldRevision(k)

\* C4: if the new plan and the old plan differ in shape, resolve_revisions
\* returns True whatever the revisions are.
C4_DifferentShapeChanged == (Compared /\ ~SameShape) => resolution.changed

\* two plans with as many branches, none of them pinned, that differ in a
\* name only: found changed
C4_Witness ==
    /\ Compared /\ ~SameShape
    /\ resolution.changed
    /\ Len(base_branch.nodes) = Len(old_recipe.nodes)
    /\ \A k \in 1..Len(base_branch.nodes) :
          /\ NewBranch(k).revspec = None
          /\ OldBranch(k).revspec = None
          /\ NewBranch(k).url = OldBranch(k).url
          /\ Shape(base_branch)[k][4] = Shape(old_recipe)[k][4]

\* the revision the url and the revspec of branch b name in the source
\* branches: the tip without a revspec, the revision of that revno, or the
\* revision id given
ExpectedRevision(b) ==
    IF b.revspec = None THEN <<vcs[b.url][Len(vcs[b.url])]>>
    ELSE IF b.revspec[1] = "revid:" THEN <<b.revspec[2]>>
    ELSE <<vcs[b.url][CHOOSE n \in 1..Len(vcs[b.url]) : RevnoStr(n) = b.revspec[1]]>>

\* C16: when resolve_revisions returns, every branch of the plan has revid
\* set to the revision its url and revspec resolve to, and the branches were
\* resolved in depth-first pre-order, whatever the old plan is.
C16_AllResolved ==
    pc = "resolved" =>
        /\ resolution.order = PreOrder(base_branch.nodes, 1)
        /\ Len(resolution.order) = Len(base_branch.nodes)
        /\ \A k \in 1..Len(base_branch.nodes) :
               base_branch.nodes[k].revid = ExpectedRevision(base_branch.nodes[k])

\* the root of a plan with a branch inside a nest differs from the old
\* plan's, and the branches after it were resolved all the same
C16_Witness ==
    /\ Compared /\ SameShape
    /\ NewRevision(1) # OldRevision(1)
    /\ Len(base_branch.nodes) = 3
    /\ Shape(base_branch)[3][1] = 2
    /\ resolution.order = <<1, 2, 3>>
    /\ \A k \in 2..3 : base_branch.nodes[k].revid = ExpectedRevision(base_branch.nodes[k])

\* the token of the deb-version template that stands for the revno of b
RevnoToken(b) ==
    IF b.name = None THEN <<"{revno}">> ELSE <<"{revno:">> \o b.name \o <<"}">>

\* the revno, as a str, of the revision branch b resolves to
ExpectedRevno(b) ==
    RevnoStr(CHOOSE n \in 1..Len(vcs[b.url]) :
                 <<vcs[b.url][n]>> = ExpectedRevision(b))

\* deb_version is template with every token of branch b replaced by the
\* revno of b, the tokens of other branches by some text, and nothing else
\* changed
RECURSIVE SubstitutedFor(_, _, _)
SubstitutedFor(template, deb_version, b) ==
    IF template = <<>> THEN deb_version = <<>>
    ELSE IF deb_version = <<>> THEN FALSE
    ELSE IF IsPrefix(RevnoToken(b), template)
    THEN /\ Head(deb_version) = ExpectedRevno(b)
         /\ SubstitutedFor(SubSeq(template, Len(RevnoToken(b)) + 1, Len(template)),
                           Tail(deb_version), b)
    ELSE IF Head(template) = "{revno:"
    THEN SubstitutedFor(SubSeq(template, 4, Len(template)), Tail(deb_version), b)
    ELSE IF Head(template) = "{revno}"
    THEN SubstitutedFor(Tail(template), Tail(deb_version), b)
    ELSE /\ Head(deb_version) = Head(template)
         /\ SubstitutedFor(Tail(template), Tail(deb_version), b)

\* C18: after resolve_revisions succeeds, every {revno} of the deb-version
\* template is replaced by the revno of the root's revision and every
\* {revno:N} by the revno of the revision of the branch named N, for every
\* branch of the plan, and the rest of the template is unchanged.
C18_RevnoSubstituted ==
    pc = "resolved" =>
        \A k \in 1..Len(base_branch.nodes) :
            SubstitutedFor(parser.deb_version, base_branch.deb_version,
                           base_branch.nodes[k])

C20_DebupstreamKept ==
    (/\ pc \in {"resolved", "resolve_error"}
     /\ StrContains(parser.deb_version, <<"{debupstream}">>)
     /\ Len(resolution.order) = Len(resolution.nodes)
     /\ resolution.error # "BzrCommandError: Can't substitute revno")
    => /\ pc = "resolved"
       /\ StrContains(base_branch.deb_version, <<"{debupstream}">>)
       /\ SubstitutedFor(parser.deb_version, base_branch.deb_version,
                         base_branch.nodes[1])

\* the revision specs of some pair of corresponding branches differ, one of
\* them possibly absent
SpecsDiffer ==
    \E k \in 1..Len(base_branch.nodes) : NewBranch(k).revspec # OldBranch(k).revspec

\* C22 as stated: with shapes equal, a branch whose revision spec differs
\* from the spec (or the absence of one) of the corresponding branch of the
\* old plan makes resolve_revisions return True, even when both resolve to
\* the same revision.
C22_PinChangeChanged ==
    (Compared /\ SameShape /\ SpecsDiffer) => resolution.changed

\* C22 amended: with shapes equal, a difference of revision specs counts
\* only through the revisions they resolve to: resolve_revisions returns
\* True if and only if some pair of corresponding branches resolves to
\* different revisions.
C22_PinChangeByRevision ==
    (Compared /\ SameShape /\ SpecsDiffer) => (resolution.changed <=> ~SameRevisions)

\* the root is pinned by revno in the new plan and by revid in the old one,
\* both name the same revision, and the plan was found unchanged
C22_Witness ==
    /\ Compared /\ SameShape /\ SameRevisions
    /\ NewBranch(1).revspec # None
    /\ OldBranch(1).revspec # None
    /\ NewBranch(1).revspec # OldBranch(1).revspec
    /\ NewBranch(1).revspec[1] # "revid:"
    /\ OldBranch(1).revspec[1] = "revid:"
    /\ ~resolution.changed

(***************************************************************************)
(* Properties of the commands and of build_tree (SpecBuild).               *)
(***************************************************************************)
\* resolve_revisions has returned False
ReturnedUnchanged ==
    resolution.order # <<>> /\ resolution.error = "" /\ ~resolution.changed

\* C1: in build and dailydeb, when resolve_revisions returns False the
\* command notes "Unchanged" and returns 0; build_tree is never called, no
\* manifest is written at any path, no fetch, merge or nest is issued and
\* no directory is created.
C1_UnchangedSkipsBuild ==
    ReturnedUnchanged =>
        /\ cmd.notes = <<"Unchanged">>
        /\ pc \in {"prepared", "returned"}
        /\ pc = "returned" => cmd.result = "0"
        /\ stack = <<>>
        /\ ops = <<>>
        /\ cmd.written = {}
        /\ cmd.basedir \in {"absent", "exists"}
        /\ \A path \in Paths : targets[path] = NoTarget

\* dailydeb with --manifest and no working_basedir returned 0 on a recipe
\* that is unchanged against the manifest of an earlier build
C1_Witness ==
    /\ ReturnedUnchanged
    /\ pc = "returned"
    /\ cmd.command = "dailydeb" /\ cmd.manifest /\ cmd.temp_dir
    /\ old_recipe # NoPlan

IsStep(op) == op.op # "return"

\* the fetches and merges build_tree has issued, in order
Steps == SelectSeq(ops, IsStep)

\* the steps before the k-th that were made at the same target
EarlierAt(k) == {j \in 1..(k - 1) : Steps[j].path = Steps[k].path}

\* the last of a non-empty set of positions
Last(S) == CHOOSE j \in S : \A i \in S : i <= j

\* C6: build_tree applies the plan depth-first in document order: the k-th
\* step is made for the k-th branch of the plan in pre-order (the root is
\* fetched first, children are applied in order, a nested subtree is
\* finished before the next sibling), a nested branch is fetched and a
\* merged one merged, a finished build has made a step for every branch,
\* and every merge commit has as its first parent the tip the earlier
\* steps left in its target: the previous merge commit if there is one.
C6_DocumentOrder ==
    Steps # <<>> =>
        /\ Len(Steps) <= Len(base_branch.nodes)
        /\ \A k \in 1..Len(Steps) :
              /\ Steps[k].branch = PreOrder(base_branch.nodes, 1)[k]
              /\ Steps[k].op = "merge"
                     <=> (k > 1 /\ Shape(base_branch)[k][4] = None)
              /\ Steps[k].commit # None =>
                    /\ EarlierAt(k) # {}
                    /\ Steps[k].parents[1]
                           = Steps[Last(EarlierAt(k))].tip[
                                 Len(Steps[Last(EarlierAt(k))].tip)]
                    /\ \A j \in EarlierAt(k) :
                          (Steps[j].commit # None
                           /\ \A i \in EarlierAt(k) :
                                 i > j => Steps[i].commit = None)
                          => Steps[k].parents[1] = Steps[j].commit[1]
        /\ pc \in {"built", "manifest_written", "renamed", "returned"}
               => Len(Steps) = Len(base_branch.nodes)

\* a build finished in which a target got two merge commits, the second on
\* top of the first
C6_Witness ==
    /\ pc = "built"
    /\ \E j, k \in 1..Len(Steps) :
          /\ j < k
          /\ Steps[j].path = Steps[k].path
          /\ Steps[j].commit # None
          /\ Steps[k].commit # None
          /\ Steps[k].parents[1] = Steps[j].commit[1]

\* the build has stopped with an error, or is on its way out with one
Aborting == (pc = "build_tree" /\ raised # "") \/ pc = "failed"

\* what the steps before the k-th entry of the log did is still in place
EarlierEffectsKept(k) ==
    \A j \in 1..(k - 1) :
        ops[j].op # "return"
            => IsPrefix(ops[j].tip, targets[ops[j].path].history)

\* nothing but returns with an error follows the k-th entry of the log
NothingLater(k) ==
    \A j \in (k + 1)..Len(ops) : ops[j].op = "return" /\ ops[j].error # ""

\* C7: if a merge produces conflicts, build_tree raises an error; no commit
\* is recorded for that merge, the tree is left with the merge pending and
\* the conflicts present, no later instruction of the plan is executed at
\* any level, and the effects of the earlier steps stay in place.
C7_MergeConflictAborts ==
    \A k \in 1..Len(ops) :
        (ops[k].op = "merge" /\ ops[k].conflicts) =>
            /\ Aborting
            /\ ops[k].error # ""
            /\ ops[k].commit = None
            /\ targets[ops[k].path].history = ops[k].tip
            /\ \A j \in 1..(k - 1) :
                  (/\ ops[j].op # "return" /\ ops[j].path = ops[k].path
                   /\ \A i \in (j + 1)..(k - 1) :
                         ops[i].op = "return" \/ ops[i].path # ops[k].path)
                      => ops[j].tip = ops[k].tip
            /\ targets[ops[k].path].pending = ops[k].revid
            /\ targets[ops[k].path].conflicts
            /\ NothingLater(k)
            /\ EarlierEffectsKept(k)

\* a merge inside a nest had conflicts while the plan still had an
\* instruction after the nest, and the command has failed
C7_Witness ==
    /\ pc = "failed"
    /\ \E k \in 1..Len(ops) :
          /\ ops[k].op = "merge" /\ ops[k].conflicts
          /\ ops[k].path # <<>>
    /\ Len(Steps) < Len(base_branch.nodes)

\* C8: if the target tree has conflicts after the pull-or-branch step of a
\* branch, pull_or_branch raises "Conflicts... aborting." and build_tree
\* executes none of the branch's child instructions and no later
\* instruction of the plan; the pulled revision stays in the target.
C8_PullConflictAborts ==
    \A k \in 1..Len(ops) :
        (ops[k].op = "fetch" /\ ops[k].conflicts) =>
            /\ Aborting
            /\ ops[k].error = "Conflicts... aborting."
            /\ NothingLater(k)
            /\ targets[ops[k].path].history = ops[k].tip
            /\ ops[k].revid[1] \in targets[ops[k].path].ancestry

\* the pull into the existing tree of a nested branch that has children
\* left conflicts, and the command has failed
C8_Witness ==
    /\ pc = "failed"
    /\ \E k \in 1..Len(ops) :
          /\ ops[k].op = "fetch" /\ ops[k].conflicts
          /\ ops[k].path # <<>>
          /\ base_branch.nodes[ops[k].branch].child_branches # <<>>
          /\ Len(ops[k].tip) = 2

\* C17: once resolve_revisions has set the revid of a branch it never
\* changes for that plan: no step of the command, build_tree included, gives
\* a branch another revid, whatever the source branches do.
C17_RevidImmutable ==
    [][\A k \in 1..Len(base_branch.nodes) :
          base_branch.nodes[k].revid # None =>
              base_branch'.nodes[k].revid = base_branch.nodes[k].revid]_vars


\* the failures to expand a placeholder of deb-version: a token left in the
\* template, a revno that cannot be determined, {debupstream} with no
\* previous changelog entry
PlaceholderErrors ==
    { "BzrCommandError: deb-version not fully expanded",
      "BzrCommandError: Can't substitute revno",
      "BzrCommandError: No previous changelog to take the upstream version from" }

\* build_tree has not started: no call of it is running, it did no step and
\* it opened no target
NothingBuilt ==
    /\ stack = <<>>
    /\ ops = <<>>
    /\ \A path \in Paths : targets[path] = NoTarget

MergeCompleted(k) == Steps[k].op = "merge" /\ Steps[k].error = ""

\* the mainline the steps before the k-th left in its target
MainlineBefore(k) == Steps[Last(EarlierAt(k))].tip

\* C26 as stated: every merge instruction that completes without conflicts
\* records exactly one merge commit in the target, whose parents are the
\* target's previous tip and the merged revision, also when the merged
\* revision is already an ancestor of the target's tip.
C26_EveryMergeCommits ==
    \A k \in 1..Len(Steps) :
        MergeCompleted(k) =>
            /\ Steps[k].commit # None
            /\ Steps[k].parents
                   = <<MainlineBefore(k)[Len(MainlineBefore(k))]>> \o Steps[k].revid
            /\ Steps[k].tip = MainlineBefore(k) \o Steps[k].commit

\* build_tree has just made a merge step that completed without conflicts
MergeStepCompleted ==
    /\ Len(ops') = Len(ops) + 1
    /\ ops'[Len(ops')].op = "merge"
    /\ ops'[Len(ops')].error = ""

\* the target of the merge step just made, before and after it
MergeTarget == targets[ops'[Len(ops')].path]
MergeTargetAfter == targets'[ops'[Len(ops')].path]

\* C26 amended: a merge instruction that completes without conflicts and
\* whose merged revision is not yet in the ancestry of the target's tip
\* records exactly one merge commit in the target, whose parents are the
\* target's previous tip and the merged revision; a merge of a revision
\* that is already in the ancestry of the tip records no commit and leaves
\* the target as it was.
C26_MergeCommitsUnlessMerged ==
    [][MergeStepCompleted =>
         IF ops'[Len(ops')].revid[1] \in MergeTarget.ancestry
         THEN /\ ops'[Len(ops')].commit = None
              /\ MergeTargetAfter = MergeTarget
         ELSE /\ ops'[Len(ops')].commit # None
              /\ ops'[Len(ops')].parents
                     = <<MergeTarget.history[Len(MergeTarget.history)]>>
                       \o ops'[Len(ops')].revid
              /\ MergeTargetAfter.history
                     = MergeTarget.history \o ops'[Len(ops')].commit]_vars

\* a build in which one merge recorded a commit and a later merge at the
\* same target, of a revision the first had brought in, recorded none
C26_Witness ==
    \E j, k \in 1..Len(Steps) :
        /\ j < k
        /\ Steps[j].path = Steps[k].path
        /\ MergeCompleted(j) /\ Steps[j].commit # None
        /\ MergeCompleted(k) /\ Steps[k].commit = None
        /\ Steps[k].revid = Steps[j].revid
        /\ Steps[k].tip = Steps[j].tip

\* the tree and the branch update_branch returned to a running build_tree
\* are locked
ReturnedLocked(frame) ==
    /\ frame.tree_to # "None"
    /\ frame.br_to # "None"
    /\ frame.locks["tree_" \o frame.tree_to] >= 1
    /\ frame.locks["br_" \o frame.br_to] >= 1
    /\ ~frame.locks.not_held

\* the k-th entry of the log is a pull_or_branch that returned
FetchReturned(k) == ops[k].op = "fetch" /\ ops[k].error = ""

\* C27: whenever pull_or_branch returns normally, in each of its three
\* modes (no target branch, target branch with tree, target branch without
\* tree), the tree and the branch it returns are both locked and at the
\* requested revision, the caller having locked what it passed in.
C27_PullOrBranchReturns ==
    /\ \A i \in 1..Len(stack) :
          stack[i].phase = "children" => ReturnedLocked(stack[i])
    /\ \A k \in 1..Len(ops) :
          FetchReturned(k) => <<ops[k].tip[Len(ops[k].tip)]>> = ops[k].revid

\* C28: for every run of build_tree, whether it returns or raises, every
\* lock it or its helpers took on the target tree and the target branch has
\* been released exactly once when it exits, and no object is unlocked
\* while it is not locked, whatever the target was (no branch, branch with
\* tree, branch without tree) and however the run ended (success, conflicts
\* after the pull, conflicts from a merge).
C28_LockBalance ==
    \A k \in 1..Len(ops) : ops[k].op = "return" => ops[k].locks = NoLocks

\* C29: in dailydeb, once the working directory has been renamed to the
\* package directory, it is renamed back to the working-directory name on
\* every exit path of the command: a successful build, a run with
\* --no-build, and a failure of the build step.
C29_RenamedBack ==
    (cmd.command = "dailydeb" /\ pc \in {"returned", "failed"}) => ~cmd.renamed

\* the errors build_manifest raises: one of its assertions, or its parse of
\* the text it put together
ManifestErrors ==
    {"AssertionError: Branch hasn't been built", "RecipeParseError"}

\* every branch of the recipe, at every depth, has its revid
EveryBranchBuilt ==
    \A n \in 1..Len(base_branch.nodes) : base_branch.nodes[n].revid # None

\* C30: in the build command, once the recipe was parsed, resolved and
\* built, the root and every child at every depth have a revid, so that no
\* "Branch hasn't been built" assertion of build_manifest fails, and the
\* parse of the manifest at the end of build_manifest does not raise: the
\* command never fails with either error and the manifest is written.
C30_ManifestOfBuiltRecipe ==
    cmd.command = "build" =>
        /\ raised \notin ManifestErrors
        /\ pc = "built" => EveryBranchBuilt
        /\ pc = "returned" /\ cmd.result = "None" =>
              /\ manifest.error = ""
              /\ ~Failed(parse(manifest.manifest))
              /\ manifest_path(cmd) \in cmd.written

\* build has written the manifest of a recipe with a merge below a nest
\* below a nest
C30_Witness ==
    /\ cmd.command = "build"
    /\ pc = "returned"
    /\ cmd.result = "None"
    /\ manifest.error = ""
    /\ Len(base_branch.nodes) >= 4
    /\ \E k \in 1..Len(manifest.manifest) :
          /\ Len(manifest.manifest[k]) > 5
          /\ SubSeq(manifest.manifest[k], 1, 5)
                 = <<" ", " ", " ", " ", "merge">>

(***************************************************************************)
(* Properties of substitute_time (SpecTime).                               *)
(***************************************************************************)
\* C24: substitute_time is idempotent: applied twice with the same
\* timestamp it leaves deb_version equal to what one application gives, and
\* a template without time placeholders is left unchanged.
C24_TimeIdempotent ==
    /\ pc = "timed_twice" =>
          base_branch.deb_version = substitute_time(parser.deb_version, cmd.time)
    /\ (/\ pc \in {"timed", "timed_twice"}
        /\ ~StrContains(parser.deb_version, <<"{time}">>)
        /\ ~StrContains(parser.deb_version, <<"{date}">>))
       => base_branch.deb_version = parser.deb_version

\* a template that holds {time} twice has gone through the pass twice
C24_Witness ==
    /\ pc = "timed_twice"
    /\ parser.deb_version = <<"{time}", "-", "{time}">>
    /\ base_branch.deb_version # parser.deb_version
    /\ cmd.time = datetime(1970, 1, 1, 0, 0)
    /\ base_branch.deb_version = <<"197001010000", "-", "197001010000">>

\* the date of a datetime, YYYYMMDD
DateOf(time) ==
    << Padded(time.year, 4) \o Padded(time.month, 2) \o Padded(time.day, 2) >>

\* C25: substitute_time replaces every {date} placeholder of the root's
\* deb_version with the date of the given timestamp (YYYYMMDD), as it
\* replaces {time} with YYYYMMDDHHMM, so that after the time pass neither
\* token remains in the template.
C25_DateSubstituted ==
    pc \in {"timed", "timed_twice"} =>
        /\ ~StrContains(base_branch.deb_version, <<"{time}">>)
        /\ ~StrContains(base_branch.deb_version, <<"{date}">>)
        /\ base_branch.deb_version =
               StrReplace(StrReplace(parser.deb_version, <<"{time}">>,
                                     strftime(cmd.time)),
                          <<"{date}">>, DateOf(cmd.time))

====
